---- MODULE Spec2Model ----
(***************************************************************************)
(* A model of the changelogging builder: fragment names are parsed, the    *)
(* fragments of a directory are collected into sections, an entry is       *)
(* rendered and wrapped, and Builder::write splices it into the changelog  *)
(* file at the start marker.                                               *)
(*                                                                         *)
(* Text is a sequence of one-character strings, so that splitting,         *)
(* trimming, parsing and formatting are computed character by character.   *)
(***************************************************************************)
EXTENDS Integers, Sequences, FiniteSets, TLC

\* ------------------------------------------------------------------ bounds
\* longest initial changelog file, in characters
MaxFileLen == 3
\* number of fragment files in the fragments directory
MaxFiles == 3
\* number of builder invocations (write or preview) in one behaviour
MaxRuns == 2
\* a failing write! leaves at most this many characters in the file
MaxPartial == 1
\* longest text given to wrap_str on its own, in characters
MaxText == 4
\* widest of the small values of config.wrap
MaxWidth == 6
\* the longest name given to Partial::from_str
MaxName == 4

\* ------------------------------------------------------------------- text
SPACE == " "
NEW_LINE == "\n"
DOUBLE_NEW_LINE == <<"\n", "\n">>
NO_SIGNIFICANT_CHANGES ==
    <<"N", "o", " ", "s", "i", "g", "n", "i", "f", "i", "c", "a", "n", "t",
      " ", "c", "h", "a", "n", "g", "e", "s", ".">>
DOT == "."
STRING_PREFIX == "~"

\* the characters of the model in code-point order (Ord for str is bytewise)
Ascii ==
    <<"\t", "\n", "\r", " ", "!", "#", "(", ")", "+", "-", ".",
      "0", "1", "2", "3", "4", "5", "6", "7", "8", "9", "<", ">",
      "A", "B", "C", "D", "E", "F", "G", "H", "I", "J", "K", "L", "M",
      "N", "O", "P", "Q", "R", "S", "T", "U", "V", "W", "X", "Y", "Z",
      "a", "b", "c", "d", "e", "f", "g", "h", "i", "j", "k", "l", "m",
      "n", "o", "p", "q", "r", "s", "t", "u", "v", "w", "x", "y", "z",
      "~">>

CharCode(c) == CHOOSE i \in 1..Len(Ascii) : Ascii[i] = c

\* char::is_whitespace, for the characters of the model
IsWhitespace(c) == c \in {"\t", "\n", "\r", " "}

Digits == <<"0", "1", "2", "3", "4", "5", "6", "7", "8", "9">>
IsDigit(c) == \E i \in 1..10 : Digits[i] = c

Drop(s, n) == SubSeq(s, n + 1, Len(s))
Take(s, n) == SubSeq(s, 1, n)

RECURSIVE Concat(_)
Concat(ss) == IF ss = <<>> THEN <<>> ELSE Head(ss) \o Concat(Tail(ss))

\* itertools join
RECURSIVE Join(_, _)
Join(ss, sep) ==
    IF ss = <<>> THEN <<>>
    ELSE IF Len(ss) = 1 THEN ss[1]
    ELSE ss[1] \o sep \o Join(Tail(ss), sep)

RECURSIVE Repeat(_, _)
Repeat(c, n) == IF n = 0 THEN <<>> ELSE <<c>> \o Repeat(c, n - 1)

StartsWith(s, p) == Len(p) <= Len(s) /\ Take(s, Len(p)) = p

\* str::find: the index of the first occurrence of p in s, 0 when absent
Find(s, p) ==
    LET hits == {i \in 1..(Len(s) - Len(p) + 1) : SubSeq(s, i, i + Len(p) - 1) = p}
    IN IF hits = {} THEN 0 ELSE CHOOSE i \in hits : \A j \in hits : i <= j

\* str::split_once
split_once(s, p) ==
    LET i == Find(s, p)
    IN IF i = 0 THEN [found |-> FALSE, before |-> <<>>, after |-> <<>>]
       ELSE [found |-> TRUE, before |-> Take(s, i - 1), after |-> Drop(s, i - 1 + Len(p))]

\* str::trim_start
RECURSIVE trim_start(_)
trim_start(s) ==
    IF s /= <<>> /\ IsWhitespace(Head(s)) THEN trim_start(Tail(s)) ELSE s

\* str::trim_end
RECURSIVE trim_end(_)
trim_end(s) ==
    IF s /= <<>> /\ IsWhitespace(s[Len(s)]) THEN trim_end(Take(s, Len(s) - 1)) ELSE s

\* str::trim
trim(s) == trim_end(trim_start(s))

\* str::split on one character: the segments between the separators
RECURSIVE Split(_, _)
Split(s, c) ==
    LET i == Find(s, <<c>>)
    IN IF i = 0 THEN <<s>> ELSE <<Take(s, i - 1)>> \o Split(Drop(s, i), c)

\* Ord for str: lexicographic on the characters
RECURSIVE StrLess(_, _)
StrLess(a, b) ==
    IF b = <<>> THEN FALSE
    ELSE IF a = <<>> THEN TRUE
    ELSE IF Head(a) = Head(b) THEN StrLess(Tail(a), Tail(b))
    ELSE CharCode(Head(a)) < CharCode(Head(b))

\* ------------------------------------------------------------ fragment.rs
\* A u32 is held as its decimal digits without leading zeros: the values of
\* the type exceed the integers of the checker.
U32Max == <<"4", "2", "9", "4", "9", "6", "7", "2", "9", "5">>

RECURSIVE StripZeros(_)
StripZeros(s) == IF Len(s) > 1 /\ Head(s) = "0" THEN StripZeros(Tail(s)) ELSE s

\* u32 values compared as text: "10" before "2"
U32LessAsText(a, b) == StrLess(a, b)

\* the order of u32 values
U32Less(a, b) == Len(a) < Len(b) \/ (Len(a) = Len(b) /\ StrLess(a, b))

\* u32::from_str: an optional '+', then at least one digit, no overflow
ParseInteger(s) ==
    LET body == IF s /= <<>> /\ Head(s) = "+" THEN Tail(s) ELSE s
    IN IF body = <<>> \/ \E i \in 1..Len(body) : ~IsDigit(body[i])
       THEN [ok |-> FALSE, value |-> <<>>]
       ELSE IF U32Less(U32Max, StripZeros(body)) THEN [ok |-> FALSE, value |-> <<>>]
       ELSE [ok |-> TRUE, value |-> StripZeros(body)]

\* u32 Display
FormatInteger(n) == n

\* Id::from_str, the integer case: the parsed integer, or Error::InvalidId
IdFromInteger(p) ==
    IF p.ok
    THEN [ok |-> TRUE, id |-> [kind |-> "Integer", int |-> p.value, str |-> <<>>]]
    ELSE [ok |-> FALSE, err |-> "InvalidId"]

\* Id::from_str
IdFromStr(s) ==
    IF s /= <<>> /\ Head(s) = STRING_PREFIX
    THEN [ok |-> TRUE, id |-> [kind |-> "String", int |-> <<>>, str |-> Tail(s)]]
    ELSE IdFromInteger(ParseInteger(s))

is_integer(id) == id.kind = "Integer"

\* Partial::from_str that takes the last segment of the name as the type
PartialFromIdLastSegment(split, id) ==
    IF ~id.ok THEN [ok |-> FALSE, err |-> "InvalidId"]
    ELSE IF Len(split) < 2 THEN [ok |-> FALSE, err |-> "UnexpectedEof"]
    ELSE [ok |-> TRUE, partial |-> [id |-> id.id, type_name |-> split[Len(split)]]]

\* Partial::from_str once the id is parsed: the next segment is the type
PartialFromId(split, id) ==
    IF ~id.ok THEN [ok |-> FALSE, err |-> "InvalidId"]
    ELSE IF Len(split) < 2 THEN [ok |-> FALSE, err |-> "UnexpectedEof"]
    ELSE [ok |-> TRUE, partial |-> [id |-> id.id, type_name |-> split[2]]]

\* Partial::from_str on the segments of the name: the first is the id
PartialFromSplit(split) == PartialFromId(split, IdFromStr(split[1]))

\* Partial::from_str
PartialFromStr(name) == PartialFromSplit(Split(name, DOT))

validate_str(string) == PartialFromStr(string).ok

\* a directory entry: its file name (utf8 tells whether the name is valid
\* UTF-8), whether read_to_string succeeds on it, and its text
path_name(entry) == IF entry.utf8 THEN [some |-> TRUE, name |-> entry.name] ELSE [some |-> FALSE]

is_valid_path_ref(entry) ==
    LET n == path_name(entry) IN n.some /\ validate_str(n.name)

\* Fragment::load that takes a file it cannot read as an empty one
load_content_unread(entry, info) ==
    IF ~info.ok THEN [ok |-> FALSE, err |-> "Parse"]
    ELSE [ok |-> TRUE,
          fragment |-> [partial |-> info.partial, content |-> trim(entry.content)]]

\* Fragment::load once the name is parsed: the content is read and trimmed
load_content(entry, info) ==
    IF ~info.ok THEN [ok |-> FALSE, err |-> "Parse"]
    ELSE IF ~entry.readable THEN [ok |-> FALSE, err |-> "Read"]
    ELSE [ok |-> TRUE,
          fragment |-> [partial |-> info.partial, content |-> trim(entry.content)]]

\* Fragment::load
load(entry) ==
    IF ~path_name(entry).some THEN [ok |-> FALSE, err |-> "InvalidUtf8"]
    ELSE load_content(entry, PartialFromStr(path_name(entry).name))

\* an order of ids that puts every String before every Integer
IdLessStringsFirst(a, b) ==
    IF a.kind = "Integer" /\ b.kind = "Integer" THEN U32Less(a.int, b.int)
    ELSE IF a.kind = "Integer" THEN FALSE
    ELSE IF b.kind = "Integer" THEN TRUE
    ELSE StrLess(a.str, b.str)

\* derived Ord of Id: every Integer before every String
IdLess(a, b) ==
    IF a.kind = "Integer" /\ b.kind = "Integer" THEN U32Less(a.int, b.int)
    ELSE IF a.kind = "Integer" THEN TRUE
    ELSE IF b.kind = "Integer" THEN FALSE
    ELSE StrLess(a.str, b.str)

\* derived Ord of Partial: id, then type_name
PartialLess(a, b) ==
    IF a.id /= b.id THEN IdLess(a.id, b.id) ELSE StrLess(a.type_name, b.type_name)

\* an order of fragments that looks at the partial alone
FragmentLessByPartial(a, b) == PartialLess(a.partial, b.partial)

\* derived Ord of Fragment: partial, then content
FragmentLess(a, b) ==
    IF a.partial /= b.partial THEN PartialLess(a.partial, b.partial)
    ELSE StrLess(a.content, b.content)

\* slice::sort (stable): insertion after the last element not greater
RECURSIVE Insert(_, _)
Insert(sorted, x) ==
    IF sorted = <<>> THEN <<x>>
    ELSE IF FragmentLess(x, Head(sorted)) THEN <<x>> \o sorted
    ELSE <<Head(sorted)>> \o Insert(Tail(sorted), x)

RECURSIVE Sort(_)
Sort(s) == IF s = <<>> THEN <<>> ELSE Insert(Sort(Take(s, Len(s) - 1)), s[Len(s)])

\* -------------------------------------------------------------- config.rs
T_security == <<"s", "e", "c", "u", "r", "i", "t", "y">>
T_feature == <<"f", "e", "a", "t", "u", "r", "e">>
T_change == <<"c", "h", "a", "n", "g", "e">>
T_fix == <<"f", "i", "x">>
T_deprecation == <<"d", "e", "p", "r", "e", "c", "a", "t", "i", "o", "n">>
T_removal == <<"r", "e", "m", "o", "v", "a", "l">>
T_internal == <<"i", "n", "t", "e", "r", "n", "a", "l">>
Title_Security == <<"S", "e", "c", "u", "r", "i", "t", "y">>
Title_Features == <<"F", "e", "a", "t", "u", "r", "e", "s">>
Title_Changes == <<"C", "h", "a", "n", "g", "e", "s">>
Title_Fixes == <<"F", "i", "x", "e", "s">>
Title_Deprecations == <<"D", "e", "p", "r", "e", "c", "a", "t", "i", "o", "n", "s">>
Title_Removals == <<"R", "e", "m", "o", "v", "a", "l", "s">>
Title_Internal == <<"I", "n", "t", "e", "r", "n", "a", "l">>

\* default_order
default_order ==
    <<T_security, T_feature, T_change, T_fix, T_deprecation, T_removal, T_internal>>

\* default_types
default_types ==
    (T_security :> Title_Security) @@ (T_feature :> Title_Features) @@
    (T_change :> Title_Changes) @@ (T_fix :> Title_Fixes) @@
    (T_deprecation :> Title_Deprecations) @@ (T_removal :> Title_Removals) @@
    (T_internal :> Title_Internal)

\* a start marker of one character
Marker == <<"M">>
DEFAULT_ENTRY == 2
DEFAULT_SECTION == 3
DEFAULT_HEADING == "#"
DEFAULT_BULLET == "-"
DEFAULT_WRAP == 100

\* HashMap::extend: the entries of extra replace those of base
Extend(base, extra) ==
    [k \in (DOMAIN base) \cup (DOMAIN extra) |->
        IF k \in DOMAIN extra THEN extra[k] ELSE base[k]]

\* the defaults replacing the titles of config.types
types_with_defaults_reversed(config) == Extend(config.types, default_types)

\* Config::types_with_defaults
types_with_defaults(config) == Extend(default_types, config.types)

\* ---------------------------------------------------- templates (handlebars)
\* A template is a sequence of parts: literal text, or the name of a field.
Lit(text) == [var |-> FALSE, text |-> text, name |-> ""]
Var(name) == [var |-> TRUE, text |-> <<>>, name |-> name]

\* Handlebars::render in strict mode with no_escape: a field that the data
\* does not have is an error
RECURSIVE Render(_, _)
Render(parts, data) ==
    IF parts = <<>> THEN [ok |-> TRUE, text |-> <<>>]
    ELSE LET part == Head(parts)
             rest == Render(Tail(parts), data)
         IN IF part.var /\ part.name \notin DOMAIN data THEN [ok |-> FALSE, text |-> <<>>]
            ELSE IF ~rest.ok THEN rest
            ELSE [ok |-> TRUE,
                  text |-> (IF part.var THEN data[part.name] ELSE part.text) \o rest.text]

\* the serialized form of an Id (untagged): the number, or the string
IdText(id) == IF is_integer(id) THEN FormatInteger(id.int) ELSE id.str

\* RenderTitleData: the context flattened, and the date
RenderTitleData(context, date) ==
    [name |-> context.name, version |-> context.version, url |-> context.url,
     date |-> date]

\* RenderFragmentData: the context and the fragment, both flattened
RenderFragmentData(context, fragment) ==
    [name |-> context.name, version |-> context.version, url |-> context.url,
     id |-> IdText(fragment.partial.id), type_name |-> fragment.partial.type_name,
     content |-> fragment.content]

\* ------------------------------------------------------------- builder.rs
\* a heading of one character, whatever the level
heading_one_level(character, level) == <<character, SPACE>>

\* heading
heading(character, level) == Repeat(character, level) \o <<SPACE>>

\* indent
indent(character) == <<character, SPACE>>

\* Builder::entry_heading
entry_heading(b) == heading(b.config.indents.heading, b.config.levels.entry)

\* Builder::section_heading
section_heading(b) == heading(b.config.indents.heading, b.config.levels.section)

\* Builder::render_title
render_title(b) == Render(b.config.formats.title, RenderTitleData(b.context, b.date))

\* render_fragment that renders the template for every id
render_fragment_always(b, fragment) ==
    Render(b.config.formats.fragment, RenderFragmentData(b.context, fragment))

\* Builder::render_fragment
render_fragment(b, fragment) ==
    IF is_integer(fragment.partial.id)
    THEN Render(b.config.formats.fragment, RenderFragmentData(b.context, fragment))
    ELSE [ok |-> TRUE, text |-> fragment.content]

\* textwrap WordSeparator::AsciiSpace: a word is its text and the spaces
\* after it; the spaces that start a line are a word with empty text
RECURSIVE find_words(_)
find_words(line) ==
    IF line = <<>> THEN <<>>
    ELSE LET texts == {i \in 0..Len(line) : \A j \in 1..i : line[j] /= SPACE}
             t == CHOOSE i \in texts : \A j \in texts : j <= i
             spaces == {i \in t..Len(line) : \A j \in (t + 1)..i : line[j] = SPACE}
             e == CHOOSE i \in spaces : \A j \in spaces : j <= i
         IN <<[word |-> Take(line, t), whitespace |-> SubSeq(line, t + 1, e)]>>
            \o find_words(Drop(line, e))

\* textwrap core ch_width with the feature unicode-width (a default
\* feature): a control character has no width, the other characters of the
\* model have the width 1
ch_width(c) == IF c \in {"\t", "\n", "\r"} THEN 0 ELSE 1

\* textwrap core display_width: the widths of the characters added up; a
\* width is 0 or 1, so the sum is the number of characters of width 1
display_width(text) == Len(SelectSeq(text, LAMBDA c : ch_width(c) = 1))

\* textwrap wrap_first_fit: the words of each output line; a word is as
\* wide as it displays, its whitespace as long as it is; line_widths holds
\* the width of the line being filled and of the lines after it, the last
\* width standing for every later line
RECURSIVE wrap_first_fit(_, _, _, _)
wrap_first_fit(words, current, width, line_widths) ==
    IF words = <<>> THEN <<current>>
    ELSE LET w == Head(words)
         IN IF width + display_width(w.word) > Head(line_widths) /\ current /= <<>>
            THEN <<current>> \o
                 wrap_first_fit(Tail(words), <<w>>,
                                display_width(w.word) + Len(w.whitespace),
                                IF Len(line_widths) > 1 THEN Tail(line_widths)
                                ELSE line_widths)
            ELSE wrap_first_fit(Tail(words), current \o <<w>>,
                                width + display_width(w.word) + Len(w.whitespace),
                                line_widths)

\* textwrap Penalties::new
NLINE_PENALTY == 1000
OVERFLOW_PENALTY == 2500
SHORT_LAST_LINE_FRACTION == 4
SHORT_LAST_LINE_PENALTY == 25

\* textwrap wrap_optimal_fit, widths: the width of the first j words with
\* the spaces after them
RECURSIVE widths(_, _)
widths(words, j) ==
    IF j = 0 THEN 0
    ELSE widths(words, j - 1) + display_width(words[j].word) + Len(words[j].whitespace)

\* textwrap wrap_optimal_fit, the cost of the line that holds the words
\* i+1..j, without the cost of the lines before it. The line that starts
\* after the first i words has the number 0 when i = 0 and a number of 1 or
\* more otherwise; line_widths holds two widths, the second one standing
\* for every line after the first
line_cost(words, i, j, line_widths) ==
    LET line_width == IF i = 0 THEN line_widths[1] ELSE line_widths[2]
        target_width == IF line_width > 1 THEN line_width ELSE 1
        width == widths(words, j) - widths(words, i) - Len(words[j].whitespace)
    IN NLINE_PENALTY +
       (IF width > target_width THEN (width - target_width) * OVERFLOW_PENALTY
        ELSE IF j < Len(words) THEN (target_width - width) * (target_width - width)
        ELSE IF i + 1 = j /\ width * SHORT_LAST_LINE_FRACTION < target_width
             THEN SHORT_LAST_LINE_PENALTY
        ELSE 0)

\* textwrap wrap_optimal_fit, minima: the least cost of wrapping the first j
\* words
RECURSIVE min_cost(_, _, _)
min_cost(words, j, line_widths) ==
    IF j = 0 THEN 0
    ELSE LET costs == {min_cost(words, i, line_widths) + line_cost(words, i, j, line_widths) :
                          i \in 0..(j - 1)}
         IN CHOOSE c \in costs : \A d \in costs : c <= d

\* textwrap wrap_optimal_fit, minima: where the last line of the cheapest
\* wrapping of the first j words starts; of equal costs, the first row of
\* the matrix is kept
min_prev(words, j, line_widths) ==
    LET best == {i \in 0..(j - 1) :
                    min_cost(words, i, line_widths) + line_cost(words, i, j, line_widths)
                        = min_cost(words, j, line_widths)}
    IN CHOOSE i \in best : \A k \in best : i <= k

\* textwrap wrap_optimal_fit: the lines are read back from the last word
RECURSIVE optimal_lines(_, _, _)
optimal_lines(words, pos, line_widths) ==
    IF pos = 0 THEN <<>>
    ELSE optimal_lines(words, min_prev(words, pos, line_widths), line_widths)
         \o <<SubSeq(words, min_prev(words, pos, line_widths) + 1, pos)>>

\* textwrap wrap_optimal_fit: the words of each output line
wrap_optimal_fit(words, line_widths) ==
    IF words = <<>> THEN <<(<<>>)>> ELSE optimal_lines(words, Len(words), line_widths)

\* textwrap WrapAlgorithm::new: OptimalFit when the feature smawk is built
\* in (a default feature), FirstFit otherwise
WrapAlgorithms == {"FirstFit", "OptimalFit"}

\* textwrap WrapAlgorithm::wrap
wrap_algorithm_wrap(wrap_algorithm, words, line_widths) ==
    IF wrap_algorithm = "OptimalFit" THEN wrap_optimal_fit(words, line_widths)
    ELSE wrap_first_fit(words, <<>>, 0, line_widths)

\* the text of one output line: its words with the spaces between them,
\* without the spaces after the last word
LineText(words) ==
    IF words = <<>> THEN <<>>
    ELSE Concat([i \in 1..Len(words) |->
            IF i = Len(words) THEN words[i].word
            ELSE words[i].word \o words[i].whitespace])

\* indentation that is also given to a line without words
indent_lines_all(wrapped, first, initial_indent, subsequent_indent) ==
    [i \in 1..Len(wrapped) |->
        (IF first /\ i = 1 THEN initial_indent ELSE subsequent_indent)
        \o LineText(wrapped[i])]

\* textwrap wrap_single_line_slow_path, the indentation of the lines: an
\* empty line gets none
indent_lines(wrapped, first, initial_indent, subsequent_indent) ==
    [i \in 1..Len(wrapped) |->
        IF wrapped[i] = <<>> THEN <<>>
        ELSE (IF first /\ i = 1 THEN initial_indent ELSE subsequent_indent)
             \o LineText(wrapped[i])]

\* textwrap wrap_single_line_slow_path: the output lines of one input line;
\* first tells whether no line has been produced yet. The first output line
\* of every input line is as wide as the width less the initial indent
\* leaves, the later ones as the width less the subsequent indent
\* (saturating_sub: 0 when the indent is wider)
wrap_single_line(line, first, initial_indent, subsequent_indent, width, wrap_algorithm) ==
    indent_lines(wrap_algorithm_wrap(wrap_algorithm, find_words(line),
                    <<IF width > display_width(initial_indent)
                      THEN width - display_width(initial_indent) ELSE 0,
                      IF width > display_width(subsequent_indent)
                      THEN width - display_width(subsequent_indent) ELSE 0>>),
                 first, initial_indent, subsequent_indent)

\* textwrap wrap: every input line is wrapped on its own
RECURSIVE wrap_lines(_, _, _, _, _, _)
wrap_lines(lines, first, initial_indent, subsequent_indent, width, wrap_algorithm) ==
    IF lines = <<>> THEN <<>>
    ELSE wrap_single_line(Head(lines), first, initial_indent, subsequent_indent, width,
                          wrap_algorithm)
         \o wrap_lines(Tail(lines), FALSE, initial_indent, subsequent_indent, width,
                       wrap_algorithm)

\* Builder::wrap_str (textwrap fill: the wrapped lines joined by '\n')
wrap_str(b, string) ==
    Join(wrap_lines(Split(string, NEW_LINE), TRUE,
                    indent(b.config.indents.bullet), indent(SPACE), b.config.wrap,
                    b.wrap_algorithm),
         <<NEW_LINE>>)

\* Builder::build_fragment once the fragment is rendered: it is wrapped
wrap_rendered(b, string) ==
    IF string.ok THEN [ok |-> TRUE, text |-> wrap_str(b, string.text)] ELSE string

\* Builder::build_fragment
build_fragment(b, fragment) == wrap_rendered(b, render_fragment(b, fragment))

\* process_results: the first error, or every text
AllOk(results) == \A i \in 1..Len(results) : results[i].ok
Texts(results) == [i \in 1..Len(results) |-> results[i].text]

\* a join that leaves out the fragments that failed to render
join_results_rendered(built) ==
    [ok |-> TRUE,
     text |-> Join(Texts(SelectSeq(built, LAMBDA r : r.ok)), DOUBLE_NEW_LINE)]

\* process_results, then join with DOUBLE_NEW_LINE
join_results(built) ==
    IF AllOk(built) THEN [ok |-> TRUE, text |-> Join(Texts(built), DOUBLE_NEW_LINE)]
    ELSE [ok |-> FALSE, text |-> <<>>]

\* Builder::build_fragments
build_fragments(b, fragments) ==
    join_results([i \in 1..Len(fragments) |-> build_fragment(b, fragments[i])])

\* Builder::build_section_title_str
build_section_title_str(b, title) == section_heading(b) \o title

\* a section whose fragments start on the line after the title
title_built_next_line(b, title, built) ==
    IF built.ok
    THEN [ok |-> TRUE,
          text |-> build_section_title_str(b, title) \o <<NEW_LINE>> \o built.text]
    ELSE built

\* Builder::build_section_str once the fragments are built: the title, a
\* blank line, the fragments
title_built(b, title, built) ==
    IF built.ok
    THEN [ok |-> TRUE,
          text |-> build_section_title_str(b, title) \o DOUBLE_NEW_LINE \o built.text]
    ELSE built

\* Builder::build_section_str
build_section_str(b, title, fragments) ==
    title_built(b, title, build_fragments(b, fragments))

\* filter_map going through config.order from its end
RECURSIVE filter_map_reversed(_, _, _)
filter_map_reversed(order, types, sections) ==
    IF order = <<>> THEN <<>>
    ELSE filter_map_reversed(Tail(order), types, sections) \o
         (IF Head(order) \in DOMAIN types /\ Head(order) \in DOMAIN sections
          THEN <<[title |-> types[Head(order)], fragments |-> sections[Head(order)]]>>
          ELSE <<>>)

\* the sections that build_sections renders: for every name of config.order
\* in turn, the title and the fragments when both exist
RECURSIVE filter_map(_, _, _)
filter_map(order, types, sections) ==
    IF order = <<>> THEN <<>>
    ELSE (IF Head(order) \in DOMAIN types /\ Head(order) \in DOMAIN sections
          THEN <<[title |-> types[Head(order)], fragments |-> sections[Head(order)]]>>
          ELSE <<>>)
         \o filter_map(Tail(order), types, sections)

\* the mapping of types to titles that build_sections uses
section_types(config) == types_with_defaults(config)

\* Builder::build_sections on the sections chosen: each is built
build_chosen(b, chosen) ==
    join_results([i \in 1..Len(chosen) |->
                    build_section_str(b, chosen[i].title, chosen[i].fragments)])

\* Builder::build_sections
build_sections(b, sections) ==
    build_chosen(b, filter_map(b.config.order, section_types(b.config), sections))

\* Builder::build_title once the title is rendered: the heading precedes it
head_rendered(b, title) ==
    IF title.ok THEN [ok |-> TRUE, text |-> entry_heading(b) \o title.text] ELSE title

\* Builder::build_title
build_title(b) == head_rendered(b, render_title(b))

\* the fragments that load, in the order of the listing
Kept(l) == IF l.ok THEN <<l.fragment>> ELSE <<>>

RECURSIVE Loaded(_)
Loaded(listing) ==
    IF listing = <<>> THEN <<>>
    ELSE Kept(load(Head(listing))) \o Loaded(Tail(listing))

OfType(fragments, type_name) ==
    SelectSeq(fragments, LAMBDA f : f.partial.type_name = type_name)

\* Builder::collect on the fragments loaded: one section for every type,
\* sorted
sorted_sections(fragments) ==
    [name \in {fragments[i].partial.type_name : i \in 1..Len(fragments)} |->
        Sort(OfType(fragments, name))]

\* Builder::collect on a directory that read_dir lists as `listing`: the
\* loaded fragments are pushed to the section of their type, then every
\* section is sorted
collect(listing) == sorted_sections(Loaded(listing))

\* collect_paths that keeps the entries that load as fragments
collect_paths_loaded(listing) == SelectSeq(listing, LAMBDA e : load(e).ok)

\* Builder::collect_paths
collect_paths(listing) == SelectSeq(listing, is_valid_path_ref)

\* Builder::build without the fallback: an empty section block is kept
build_entry_no_fallback(title, readable, built) ==
    IF ~title.ok THEN [ok |-> FALSE, text |-> <<>>, source |-> "BuildTitle"]
    ELSE IF ~readable THEN [ok |-> FALSE, text |-> <<>>, source |-> "Collect"]
    ELSE IF ~built.ok THEN [ok |-> FALSE, text |-> <<>>, source |-> "BuildFragment"]
    ELSE [ok |-> TRUE, text |-> title.text \o DOUBLE_NEW_LINE \o built.text,
          source |-> "None"]

\* Builder::build on the title and the sections built: the first error in
\* the order of the code (title, collect, sections), or the entry
build_entry(title, readable, built) ==
    IF ~title.ok THEN [ok |-> FALSE, text |-> <<>>, source |-> "BuildTitle"]
    ELSE IF ~readable THEN [ok |-> FALSE, text |-> <<>>, source |-> "Collect"]
    ELSE IF ~built.ok THEN [ok |-> FALSE, text |-> <<>>, source |-> "BuildFragment"]
    ELSE [ok |-> TRUE,
          text |-> title.text \o DOUBLE_NEW_LINE \o
                   (IF built.text = <<>> THEN NO_SIGNIFICANT_CHANGES ELSE built.text),
          source |-> "None"]

\* Builder::build; readable tells whether read_dir and its iteration succeed
build(b, listing, readable) ==
    build_entry(build_title(b), readable, build_sections(b, collect(listing)))

\* Splice taking the rest of the file as it is, without trimming it
SpliceUntrimmed(contents, start, entry) ==
    LET split == split_once(contents, start)
    IN IF split.found
       THEN split.before \o start \o DOUBLE_NEW_LINE \o entry \o <<NEW_LINE>> \o
            (IF split.after /= <<>> THEN <<NEW_LINE>> \o split.after ELSE <<>>)
       ELSE entry \o <<NEW_LINE>> \o
            (IF contents /= <<>> THEN <<NEW_LINE>> \o contents ELSE <<>>)

\* Splice with one newline between the entry and the trimmed rest
SpliceSingleNewline(contents, start, entry) ==
    LET split == split_once(contents, start)
    IN IF split.found
       THEN split.before \o start \o DOUBLE_NEW_LINE \o entry \o <<NEW_LINE>> \o
            trim_start(split.after)
       ELSE entry \o <<NEW_LINE>> \o trim_start(contents)

\* Splice that forgets the text before the marker
SpliceDropsBefore(contents, start, entry) ==
    LET split == split_once(contents, start)
    IN IF split.found
       THEN LET trimmed == trim_start(split.after)
            IN start \o DOUBLE_NEW_LINE \o entry \o <<NEW_LINE>> \o
               (IF trimmed /= <<>> THEN <<NEW_LINE>> \o trimmed ELSE <<>>)
       ELSE LET trimmed == trim_start(contents)
            IN entry \o <<NEW_LINE>> \o
               (IF trimmed /= <<>> THEN <<NEW_LINE>> \o trimmed ELSE <<>>)

\* Splice that puts the entry at the end of a file without the marker
SpliceAppends(contents, start, entry) ==
    LET split == split_once(contents, start)
    IN IF split.found
       THEN LET trimmed == trim_start(split.after)
            IN split.before \o start \o DOUBLE_NEW_LINE \o entry \o <<NEW_LINE>> \o
               (IF trimmed /= <<>> THEN <<NEW_LINE>> \o trimmed ELSE <<>>)
       ELSE (IF contents /= <<>> THEN contents \o DOUBLE_NEW_LINE ELSE <<>>) \o
            entry \o <<NEW_LINE>>

\* Builder::write, lines 458-492: the new content composed from the content
\* read, the start marker and the entry
Splice(contents, start, entry) ==
    LET split == split_once(contents, start)
    IN IF split.found
       THEN LET trimmed == trim_start(split.after)
            IN split.before \o start \o DOUBLE_NEW_LINE \o entry \o <<NEW_LINE>> \o
               (IF trimmed /= <<>> THEN <<NEW_LINE>> \o trimmed ELSE <<>>)
       ELSE LET trimmed == trim_start(contents)
            IN entry \o <<NEW_LINE>> \o
               (IF trimmed /= <<>> THEN <<NEW_LINE>> \o trimmed ELSE <<>>)

\* ------------------------------------------------------------------ state
VARIABLES
    file,        \* the output changelog file: whether it exists, and its text
    dir,         \* the fragments directory: a set of directory entries
    config,      \* the configuration of the builder
    pc,          \* the position of the running operation, "idle" between runs
    runs,        \* the number of operations started
    entry,       \* Builder::write: the entry built
    contents,    \* Builder::write: the content read from the file
    string,      \* Builder::write: the new content composed
    fileBefore,  \* the file when the last operation started
    dirBefore,   \* the fragments directory when the last operation started
    last,        \* the last operation and what it returned
    stdout,      \* what has been printed
    algorithm,   \* the wrap algorithm that the build of textwrap selects
    calls        \* the functions applied on their own: arguments and results

vars ==
    <<file, dir, config, pc, runs, entry, contents, string, fileBefore, dirBefore, last,
      stdout, algorithm, calls>>

\* ----------------------------------------------------------------- inputs
Context == [name |-> <<"p">>, version |-> <<"0", ".", "1">>, url |-> <<"u">>]
Date == <<"2", "0", "2", "4", "-", "0", "1", "-", "0", "2">>

\* "{{version}} ({{date}})"
DEFAULT_TITLE == <<Var("version"), Lit(<<" ", "(">>), Var("date"), Lit(<<")">>)>>
\* "{{content}} (#{{id}})"
DEFAULT_FRAGMENT == <<Var("content"), Lit(<<" ", "(", "#">>), Var("id"), Lit(<<")">>)>>
\* templates that name a field their data does not have
MissingFieldTitle == <<Var("version"), Lit(<<" ">>), Var("content")>>
MissingFieldFragment == <<Var("content"), Lit(<<" ">>), Var("date")>>

T_doc == <<"d", "o", "c">>
Title_Docs == <<"D", "o", "c", "s">>
Title_Bugs == <<"B", "u", "g", "s">>

Config(start, order, types, title, fragment) ==
    [start |-> start,
     levels |-> [entry |-> DEFAULT_ENTRY, section |-> DEFAULT_SECTION],
     indents |-> [heading |-> DEFAULT_HEADING, bullet |-> DEFAULT_BULLET],
     formats |-> [title |-> title, fragment |-> fragment],
     wrap |-> DEFAULT_WRAP,
     order |-> order,
     types |-> types]

\* Config::default, with the one-character start marker
DefaultConfig ==
    Config(Marker, default_order, default_types, DEFAULT_TITLE, DEFAULT_FRAGMENT)

Starts == {<<"M">>, <<"M", "A">>}

\* the order and types fields of the configurations checked
OrderTypes ==
    {[order |-> default_order, types |-> default_types],
     [order |-> <<T_fix, T_feature>>, types |-> <<>>],
     [order |-> <<T_doc, T_fix, T_feature>>, types |-> (T_doc :> Title_Docs) @@ (T_fix :> Title_Bugs)],
     [order |-> <<T_feature, T_doc>>, types |-> default_types]}

Titles == {DEFAULT_TITLE, MissingFieldTitle}
Fragments == {DEFAULT_FRAGMENT, MissingFieldFragment}

FileAlphabet == {"A", " ", "\n", "M"}
Texts_(alphabet, n) == UNION {[1..k -> alphabet] : k \in 0..n}
Files ==
    {[exists |-> FALSE, text |-> <<>>]} \cup
    {[exists |-> TRUE, text |-> t] : t \in Texts_(FileAlphabet, MaxFileLen)}

\* "<!-- marker -->"
ExampleMarker ==
    <<"<", "!", "-", "-", " ", "m", "a", "r", "k", "e", "r", " ", "-", "-", ">">>
\* "A\n<!-- marker -->\nB"
ExampleContents == <<"A", "\n">> \o ExampleMarker \o <<"\n", "B">>

\* "A\nM\nB", the changelog of the splice example with the marker "M"
ExampleFile == [exists |-> TRUE, text |-> <<"A", "\n", "M", "\n", "B">>]

File(name, content) == [name |-> name, utf8 |-> TRUE, readable |-> TRUE, content |-> content]

\* the files a fragments directory may hold
FilePool ==
    {File(<<"1", ".", "f", "i", "x">>, <<"Q", "\n">>),
     File(<<"2", ".", "f", "e", "a", "t", "u", "r", "e", ".", "m", "d">>, <<"Z">>),
     File(<<"3", ".", "d", "o", "c">>, <<" ", "W">>),
     File(<<"~", "n", ".", "f", "i", "x">>, <<"K">>),
     File(<<"x", ".", "f", "i", "x">>, <<"Y">>)}

Directories == {d \in SUBSET FilePool : Cardinality(d) <= MaxFiles}

\* the orders in which read_dir may list a directory
Perms(S) ==
    {s \in [1..Cardinality(S) -> S] : \A i, j \in 1..Cardinality(S) : s[i] = s[j] => i = j}

Builder ==
    [context |-> Context, config |-> config, date |-> Date, wrap_algorithm |-> algorithm]

None == [op |-> "none", result |-> "None", source |-> "None"]

Init ==
    /\ \/ /\ file \in Files
          /\ dir = {File(<<"1", ".", "f", "i", "x">>, <<"Q", "\n">>)}
          /\ \E s \in Starts : config = [DefaultConfig EXCEPT !.start = s]
       \/ /\ file = [exists |-> TRUE, text |-> ExampleContents]
          /\ dir \in {{}, {File(<<"1", ".", "f", "i", "x">>, <<"Q", "\n">>)}}
          /\ config = [DefaultConfig EXCEPT !.start = ExampleMarker]
       \/ /\ file \in {[exists |-> TRUE, text |-> <<>>], ExampleFile}
          /\ dir \in Directories
          /\ \E ot \in OrderTypes, t \in Titles, f \in Fragments :
                config = Config(Marker, ot.order, ot.types, t, f)
    /\ pc = "idle"
    /\ runs = 0
    /\ entry = <<>>
    /\ contents = <<>>
    /\ string = <<>>
    /\ fileBefore = file
    /\ dirBefore = dir
    /\ last = None
    /\ stdout = <<>>
    /\ algorithm \in WrapAlgorithms
    /\ calls = <<>>

\* ------------------------------------------------------------ Builder::write
Return(op, result, source) ==
    /\ pc' = "idle"
    /\ last' = [op |-> op, result |-> result, source |-> source]

\* line 439: the entry is built first
WriteBuild ==
    /\ pc = "idle"
    /\ runs < MaxRuns
    /\ runs' = runs + 1
    /\ fileBefore' = file
    /\ dirBefore' = dir
    /\ \E listing \in Perms(dir), readable \in BOOLEAN :
         \E built \in {build(Builder, listing, readable)} :
            IF built.ok
            THEN /\ entry' = built.text
                 /\ pc' = "open"
                 /\ last' = [op |-> "write", result |-> "Running", source |-> "None"]
            ELSE /\ entry' = <<>>
                 /\ Return("write", "Build", built.source)
    /\ contents' = <<>>
    /\ string' = <<>>
    /\ UNCHANGED <<file, dir, config, stdout, algorithm, calls>>

\* an open for reading that would create a missing file
OpenReadCreates(f) == TRUE

\* whether File::options().read(true).open can succeed: the file must exist
OpenRead(f) == f.exists

\* lines 443-446: the file is opened for reading
WriteOpen ==
    /\ pc = "open"
    /\ \E ok \in BOOLEAN :
         IF OpenRead(file) /\ ok
         THEN pc' = "read" /\ UNCHANGED last
         ELSE Return("write", "OpenFile", "None")
    /\ UNCHANGED <<file, dir, config, runs, entry, contents, string, fileBefore, dirBefore, stdout, algorithm, calls>>

\* lines 448-449: the whole file is read
WriteRead ==
    /\ pc = "read"
    /\ \E ok \in BOOLEAN :
         IF ok
         THEN contents' = file.text /\ pc' = "truncate" /\ UNCHANGED last
         ELSE contents' = contents /\ Return("write", "ReadFile", "None")
    /\ UNCHANGED <<file, dir, config, runs, entry, string, fileBefore, dirBefore, stdout, algorithm, calls>>

\* the effect on the file of opening it with create, write and truncate
OpenTruncate(f) == [exists |-> TRUE, text |-> <<>>]

\* lines 451-456: the file is opened for writing, which truncates it
WriteTruncate ==
    /\ pc = "truncate"
    /\ \E ok \in BOOLEAN :
         IF ok
         THEN file' = OpenTruncate(file) /\ pc' = "compose" /\ UNCHANGED last
         ELSE file' = file /\ Return("write", "OpenFile", "None")
    /\ UNCHANGED <<dir, config, runs, entry, contents, string, fileBefore, dirBefore, stdout, algorithm, calls>>

\* lines 458-492: the new content is composed in memory
WriteCompose ==
    /\ pc = "compose"
    /\ string' = Splice(contents, config.start, entry)
    /\ pc' = "flush"
    /\ UNCHANGED <<file, dir, config, runs, entry, contents, fileBefore, dirBefore, last, stdout, algorithm, calls>>

\* lines 494-497: the new content is written; a failing write leaves the
\* characters written so far
WriteFlush ==
    /\ pc = "flush"
    /\ \/ /\ file' = [exists |-> TRUE, text |-> string]
          /\ Return("write", "Ok", "None")
       \/ \E k \in 0..MaxPartial :
            /\ k < Len(string)
            /\ file' = [exists |-> TRUE, text |-> Take(string, k)]
            /\ Return("write", "WriteFile", "None")
    /\ UNCHANGED <<dir, config, runs, entry, contents, string, fileBefore, dirBefore, stdout, algorithm, calls>>

\* ---------------------------------------------------------- Builder::preview
\* a preview that writes the entry to the file
PreviewFileWritten(f, text) == [exists |-> TRUE, text |-> text]

\* the file after Builder::preview
PreviewFile(f, text) == f

Preview ==
    /\ pc = "idle"
    /\ runs < MaxRuns
    /\ runs' = runs + 1
    /\ fileBefore' = file
    /\ dirBefore' = dir
    /\ \E listing \in Perms(dir), readable \in BOOLEAN :
         \E built \in {build(Builder, listing, readable)} :
            IF built.ok
            THEN /\ entry' = built.text
                 /\ stdout' = stdout \o built.text \o <<NEW_LINE>>
                 /\ file' = PreviewFile(file, built.text)
                 /\ Return("preview", "Ok", "None")
            ELSE /\ entry' = <<>>
                 /\ stdout' = stdout
                 /\ file' = file
                 /\ Return("preview", "Build", built.source)
    /\ UNCHANGED <<dir, config, contents, string, algorithm, calls>>

Next ==
    \/ WriteBuild
    \/ WriteOpen
    \/ WriteRead
    \/ WriteTruncate
    \/ WriteCompose
    \/ WriteFlush
    \/ Preview

Spec == Init /\ [][Next]_vars

\* ------------------------------------------- the functions on their own
\* The builder at rest: no operation of Builder::write or Builder::preview
\* runs while a function is applied on its own.
AtRest ==
    /\ file = [exists |-> FALSE, text |-> <<>>]
    /\ pc = "idle"
    /\ runs = 0
    /\ entry = <<>>
    /\ contents = <<>>
    /\ string = <<>>
    /\ fileBefore = file
    /\ dirBefore = dir
    /\ last = None
    /\ stdout = <<>>
    /\ calls = <<>>

\* a function is applied: its arguments and its result are recorded
Apply(op, arg, ret) ==
    /\ calls' = Append(calls, [op |-> op, arg |-> arg, ret |-> ret])
    /\ UNCHANGED <<file, dir, config, pc, runs, entry, contents, string, fileBefore,
                   dirBefore, last, stdout, algorithm>>

\* a directory entry whose file cannot be read
Unreadable(name) == [name |-> name, utf8 |-> TRUE, readable |-> FALSE, content |-> <<>>]
\* a directory entry whose name is not valid UTF-8
NonUtf8(content) == [name |-> <<>>, utf8 |-> FALSE, readable |-> TRUE, content |-> content]

\* the entries a fragments directory may hold: integer ids whose numeric and
\* lexicographic orders differ, two names of the same id and type, a string
\* id, a name whose id is no number, an unreadable file and a name that is
\* not UTF-8
EntryPool ==
    {File(<<"1", ".", "f", "i", "x">>, <<"a">>),
     File(<<"2", ".", "f", "i", "x">>, <<"b">>),
     File(<<"3", ".", "f", "i", "x">>, <<"c">>),
     File(<<"1", "0", ".", "f", "i", "x">>, <<"d">>),
     File(<<"1", ".", "f", "i", "x", ".", "m", "d">>, <<"e">>),
     File(<<"7", ".", "f", "e", "a", "t", "u", "r", "e">>, <<"f">>),
     File(<<"~", "n", ".", "f", "i", "x">>, <<"g">>),
     File(<<"x", ".", "f", "i", "x">>, <<"h">>),
     Unreadable(<<"4", ".", "f", "i", "x">>),
     NonUtf8(<<"i">>)}

EntryDirectories == {d \in SUBSET EntryPool : Cardinality(d) <= MaxFiles}

\* what read_dir gives: the entries in some order, or an error
Listed(listing) == [listed |-> TRUE, listing |-> listing]
NotListed == [listed |-> FALSE, listing |-> <<>>]

InitCollect ==
    /\ dir \in EntryDirectories
    /\ config = DefaultConfig
    /\ algorithm \in WrapAlgorithms
    /\ AtRest

\* Builder::collect is called; readable tells whether read_dir and its
\* iteration succeed
Collect ==
    /\ calls = <<>>
    /\ \/ \E listing \in Perms(dir) :
            Apply("collect", Listed(listing), [ok |-> TRUE, sections |-> collect(listing)])
       \/ Apply("collect", NotListed, [ok |-> FALSE, sections |-> <<>>])

\* Builder::collect_paths is called
CollectPaths ==
    /\ calls = <<>>
    /\ \/ \E listing \in Perms(dir) :
            Apply("collect_paths", Listed(listing),
                  [ok |-> TRUE, paths |-> collect_paths(listing)])
       \/ Apply("collect_paths", NotListed, [ok |-> FALSE, paths |-> <<>>])

\* Builder::build is called, a first or a second time
Build ==
    /\ Len(calls) < 2
    /\ \A i \in 1..Len(calls) : calls[i].op = "build"
    /\ \/ \E listing \in Perms(dir) :
            Apply("build", Listed(listing), build(Builder, listing, TRUE))
       \/ Apply("build", NotListed, build(Builder, <<>>, FALSE))

NextCollect == Collect \/ CollectPaths \/ Build

SpecCollect == InitCollect /\ [][NextCollect]_vars

\* "Just a note."
JustANote == <<"J", "u", "s", "t", " ", "a", " ", "n", "o", "t", "e", ".">>

\* fragments as Fragment::load gives them: string and integer ids
SampleFragments ==
    {[partial |-> PartialFromStr(n).partial, content |-> c] :
        n \in {<<"~", "n", ".", "f", "i", "x">>, <<"~", ".", "f", "i", "x">>,
               <<"7", ".", "f", "e", "a", "t", "u", "r", "e">>,
               <<"1", "0", ".", "f", "i", "x">>},
        c \in {JustANote, <<"K">>, <<>>}}

WrapAlphabet == {"a", "b", " ", "\n", "\t"}
\* values of config.indents.bullet: two of width 1 and one of no width
Bullets == {DEFAULT_BULLET, "*", "\t"}

\* a short word, a space and a word that ends about the default width
LongTexts ==
    {[i \in 1..m |-> "a"] \o <<" ">> \o [i \in 1..(DEFAULT_WRAP - 3 - m + k) |-> "b"] :
        m \in 1..MaxText, k \in 0..MaxText}

\* the values of config.wrap: the small ones and the default
Widths == (1..MaxWidth) \cup {DEFAULT_WRAP}

InitFragment ==
    /\ dir = {}
    /\ \/ \E f \in Fragments : config = [DefaultConfig EXCEPT !.formats.fragment = f]
       \/ \E w \in Widths, c \in Bullets :
             config = [DefaultConfig EXCEPT !.wrap = w, !.indents.bullet = c]
    /\ algorithm \in WrapAlgorithms
    /\ AtRest

\* Builder::render_fragment is called
RenderFragment ==
    /\ calls = <<>>
    /\ \E fragment \in SampleFragments :
          Apply("render_fragment", fragment, render_fragment(Builder, fragment))

\* Builder::wrap_str is called
WrapStr ==
    /\ calls = <<>>
    /\ \E text \in Texts_(WrapAlphabet, MaxText) \cup LongTexts :
          Apply("wrap_str", text, [ok |-> TRUE, text |-> wrap_str(Builder, text)])

\* Builder::build_fragment is called
BuildFragment ==
    /\ calls = <<>>
    /\ \E fragment \in SampleFragments :
          Apply("build_fragment", fragment, build_fragment(Builder, fragment))

NextFragment == RenderFragment \/ WrapStr \/ BuildFragment

SpecFragment == InitFragment /\ [][NextFragment]_vars

\* the characters of the names given to Partial::from_str: digits, a sign,
\* the prefix of string ids, a letter and the dot
NameAlphabet == {"0", "1", "+", STRING_PREFIX, "x", DOT}

\* names with a file extension, and ids at the edge of u32
SampleNames ==
    {<<"1", ".", "f", "i", "x">>,
     <<"1", ".", "f", "i", "x", ".", "m", "d">>,
     <<"~", "n", ".", "f", "i", "x", ".", "m", "d">>,
     <<"4", "2", "9", "4", "9", "6", "7", "2", "9", "5", ".", "x">>,
     <<"4", "2", "9", "4", "9", "6", "7", "2", "9", "6", ".", "x">>}

InitParse ==
    /\ dir = {}
    /\ config = DefaultConfig
    /\ algorithm \in WrapAlgorithms
    /\ AtRest

\* Partial::from_str is called on a name
Parse ==
    /\ calls = <<>>
    /\ \E name \in Texts_(NameAlphabet, MaxName) \cup SampleNames :
            Apply("parse", name, PartialFromStr(name))

NextParse == Parse

SpecParse == InitParse /\ [][NextParse]_vars

\* ------------------------------------------------------------ the commands
\* The templates of the configuration are texts; Builder::new compiles them.
\* "{{version}} ({{date}})"
TitleSource == <<"{", "{", "v", "e", "r", "s", "i", "o", "n", "}", "}", " ", "(", "{", "{", "d", "a", "t", "e", "}", "}", ")">>
\* "{{content}} (#{{id}})"
FragmentSource == <<"{", "{", "c", "o", "n", "t", "e", "n", "t", "}", "}", " ", "(", "#", "{", "{", "i", "d", "}", "}", ")">>
\* "{{version}} {{content}}": compiles, and names a field the title data lacks
MissingFieldTitleSource == <<"{", "{", "v", "e", "r", "s", "i", "o", "n", "}", "}", " ", "{", "{", "c", "o", "n", "t", "e", "n", "t", "}", "}">>
\* "{{content}} {{date}}": compiles, and names a field the fragment data lacks
MissingFieldFragmentSource == <<"{", "{", "c", "o", "n", "t", "e", "n", "t", "}", "}", " ", "{", "{", "d", "a", "t", "e", "}", "}">>
\* "{{version": the expression is never closed
UnclosedTitleSource == <<"{", "{", "v", "e", "r", "s", "i", "o", "n">>
\* "{{content}} (#{{id": the second expression is never closed
UnclosedFragmentSource == <<"{", "{", "c", "o", "n", "t", "e", "n", "t", "}", "}", " ", "(", "#", "{", "{", "i", "d">>

OPEN == <<"{", "{">>
CLOSE == <<"}", "}">>

\* the field that the text of an expression names
FieldName(inner) ==
    CASE inner = <<"n", "a", "m", "e">> -> "name"
      [] inner = <<"v", "e", "r", "s", "i", "o", "n">> -> "version"
      [] inner = <<"u", "r", "l">> -> "url"
      [] inner = <<"d", "a", "t", "e">> -> "date"
      [] inner = <<"i", "d">> -> "id"
      [] inner = <<"t", "y", "p", "e", "_", "n", "a", "m", "e">> -> "type_name"
      [] inner = <<"c", "o", "n", "t", "e", "n", "t">> -> "content"
      [] OTHER -> "?"

LitPart(text) == IF text = <<>> THEN <<>> ELSE <<Lit(text)>>

\* a compiled template whose first expression is `inner` after the text
\* `before`, and whose rest compiled to `rest`
Compiled(before, inner, rest) ==
    IF ~rest.ok THEN rest
    ELSE [ok |-> TRUE, parts |-> LitPart(before) \o <<Var(FieldName(trim(inner)))>> \o rest.parts]

\* Handlebars::register_template_string on templates of text and fields:
\* the text is cut at every "{{", which must be closed by a "}}"
RECURSIVE compile(_)
compile_from(source, i) ==
    IF Find(Drop(source, i + 1), CLOSE) = 0 THEN [ok |-> FALSE, parts |-> <<>>]
    ELSE Compiled(Take(source, i - 1),
                  Take(Drop(source, i + 1), Find(Drop(source, i + 1), CLOSE) - 1),
                  compile(Drop(source, i + 1 + Find(Drop(source, i + 1), CLOSE) + 1)))
compile(source) ==
    IF Find(source, OPEN) = 0 THEN [ok |-> TRUE, parts |-> LitPart(source)]
    ELSE compile_from(source, Find(source, OPEN))

\* Builder::new that registers the title template alone
registered_title_only(title, fragment) ==
    IF ~title.ok THEN [ok |-> FALSE, error |-> "Init", formats |-> <<>>]
    ELSE [ok |-> TRUE, error |-> "None",
          formats |-> [title |-> title.parts, fragment |-> fragment.parts]]

\* Builder::new once the templates are compiled: the first that fails to
\* compile is the InitError
registered(title, fragment) ==
    IF ~title.ok THEN [ok |-> FALSE, error |-> "Init", formats |-> <<>>]
    ELSE IF ~fragment.ok THEN [ok |-> FALSE, error |-> "Init", formats |-> <<>>]
    ELSE [ok |-> TRUE, error |-> "None",
          formats |-> [title |-> title.parts, fragment |-> fragment.parts]]

\* Builder::new
new(title, fragment) == registered(compile(title), compile(fragment))

\* "CHANGELOG.md", the path of the output file
DEFAULT_OUTPUT == <<"C", "H", "A", "N", "G", "E", "L", "O", "G", ".", "m", "d">>
\* "Add the fragment content here."
PLACEHOLDER == <<"A", "d", "d", " ", "t", "h", "e", " ", "f", "r", "a", "g", "m", "e", "n", "t", " ", "c", "o", "n", "t", "e", "n", "t", " ", "h", "e", "r", "e", ".">>

\* the last entry of the log
LastCall == calls[Len(calls)]
\* the arguments of the command that runs, or ran last
Current ==
    calls[CHOOSE k \in 1..Len(calls) :
            calls[k].op = "command" /\ \A j \in (k + 1)..Len(calls) : calls[j].op /= "command"].arg
NewOk(log) == Cardinality({k \in 1..Len(log) : log[k].op = "new" /\ log[k].ret.ok})

Command(arg) == [op |-> "command", arg |-> arg, ret |-> "Started"]
\* a command returns: its result, the entry it built, and the output file
\* before and after
Returned_(command, result, built, before, after) ==
    [op |-> "return", arg |-> command,
     ret |-> [result |-> result, entry |-> built, before |-> before, after |-> after]]
GitAdd(paths, spawned) == [op |-> "git add", arg |-> paths, ret |-> spawned]
GitRemove(paths, outcome) == [op |-> "git rm", arg |-> paths, ret |-> outcome]

\* no command runs: the log is empty, the last command has returned, or it
\* is a preview whose Builder::preview has run
Finished ==
    /\ pc = "idle"
    /\ IF calls = <<>> THEN TRUE
       ELSE IF LastCall.op = "return" THEN TRUE
       ELSE LastCall.op = "new" /\ LastCall.arg.command = "preview" /\ NewOk(calls) = runs

\* the builder is constructed and its write or preview has not started
Pending(command) ==
    /\ pc = "idle"
    /\ calls /= <<>>
    /\ LastCall.op = "new"
    /\ LastCall.ret.ok
    /\ LastCall.arg.command = command
    /\ NewOk(calls) = runs + 1

\* the templates of the configurations the commands run with
Formats ==
    {[title |-> TitleSource, fragment |-> FragmentSource],
     [title |-> UnclosedTitleSource, fragment |-> FragmentSource],
     [title |-> TitleSource, fragment |-> UnclosedFragmentSource],
     [title |-> MissingFieldTitleSource, fragment |-> FragmentSource],
     [title |-> TitleSource, fragment |-> MissingFieldFragmentSource]}

\* the start of a command that builds: the date is parsed, then the builder
\* is constructed; what the log gains
started(arg, date_ok, formats, made, f) ==
    IF ~date_ok THEN <<Command(arg), Returned_(arg.command, "Date", <<>>, f, f)>>
    ELSE IF ~made.ok
    THEN <<Command(arg), [op |-> "new", arg |-> arg @@ formats, ret |-> made],
           Returned_(arg.command, "Init", <<>>, f, f)>>
    ELSE <<Command(arg), [op |-> "new", arg |-> arg @@ formats, ret |-> made]>>

\* commands/build.rs build, lines 96-101: the date is parsed and the
\* builder is constructed, the arguments drawn from the sets given
BuildStarts(dates, stages, removes, templates) ==
    /\ Finished
    /\ runs < MaxRuns
    /\ \E date_ok \in dates, stage \in stages, remove \in removes, formats \in templates :
         \E made \in {new(formats.title, formats.fragment)} :
            /\ calls' = calls \o started([command |-> "build", stage |-> stage,
                                          remove |-> remove], date_ok, formats, made, file)
            /\ config' = IF date_ok /\ made.ok
                         THEN [config EXCEPT !.formats = made.formats] ELSE config
    /\ UNCHANGED <<file, dir, pc, runs, entry, contents, string, fileBefore, dirBefore,
                   last, stdout, algorithm>>

\* the build command is run
CommandBuild == calls = <<>> /\ BuildStarts(BOOLEAN, BOOLEAN, BOOLEAN, Formats)

\* the build command is run once more, with a date and templates that are
\* valid
CommandBuildAgain ==
    BuildStarts({TRUE}, {FALSE}, BOOLEAN,
                {[title |-> TitleSource, fragment |-> FragmentSource]})

\* commands/preview.rs preview, lines 71-76: the date and the builder
CommandPreview ==
    /\ calls = <<>>
    /\ \E date_ok \in BOOLEAN, formats \in Formats :
         \E made \in {new(formats.title, formats.fragment)} :
            /\ calls' = calls \o started([command |-> "preview", stage |-> FALSE,
                                          remove |-> FALSE], date_ok, formats, made, file)
            /\ config' = IF date_ok /\ made.ok
                         THEN [config EXCEPT !.formats = made.formats] ELSE config
    /\ UNCHANGED <<file, dir, pc, runs, entry, contents, string, fileBefore, dirBefore,
                   last, stdout, algorithm>>

\* commands/build.rs build, line 103: Builder::write starts
CommandWrite == Pending("build") /\ WriteBuild

\* commands/preview.rs preview, line 78
CommandPreviewRun == Pending("preview") /\ Preview

Range(s) == {s[i] : i \in 1..Len(s)}

\* what git rm may do with the paths: it does not start; or it runs, exits
\* with a failure or with 0 (the code does not look at the status), and has
\* unlinked all, some or none of the paths
GitRemoveOutcomes(paths) ==
    {[status |-> "NotSpawned", unlinked |-> {}]} \cup
    {[status |-> s, unlinked |-> u] : s \in {"Failed", "Removed"}, u \in SUBSET Range(paths)}

\* commands/build.rs build, lines 111-117: the paths are collected and
\* given to git rm
remove_part(remove, listing, listed, removed) ==
    IF ~remove THEN [events |-> <<>>, gone |-> {}, result |-> "Ok"]
    ELSE IF ~listed
    THEN [events |-> <<[op |-> "collect_paths", arg |-> NotListed,
                        ret |-> [ok |-> FALSE, paths |-> <<>>]]>>,
          gone |-> {}, result |-> "Collect"]
    ELSE [events |-> <<[op |-> "collect_paths", arg |-> Listed(listing),
                        ret |-> [ok |-> TRUE, paths |-> collect_paths(listing)]],
                       GitRemove(collect_paths(listing), removed.status)>>,
          gone |-> IF removed.status = "NotSpawned" THEN {}
                   ELSE removed.unlinked \cap Range(collect_paths(listing)),
          result |-> IF removed.status = "NotSpawned" THEN "Git" ELSE "Ok"]

\* commands/build.rs build, lines 105-109: the output file is given to git
\* add, and the rest follows when git could be started
stage_part(stage, output, added, rest) ==
    IF ~stage THEN rest
    ELSE IF ~added
    THEN [events |-> <<GitAdd(<<output>>, FALSE)>>, gone |-> {}, result |-> "Git"]
    ELSE [events |-> <<GitAdd(<<output>>, TRUE)>> \o rest.events, gone |-> rest.gone,
          result |-> rest.result]

\* the build command that stages and removes whatever write returned
build_after_write_unchecked(written, stage, remove, output, listing, added, listed, removed) ==
    stage_part(stage, output, added, remove_part(remove, listing, listed, removed))

\* commands/build.rs build, lines 103-119: an error of write is returned at
\* once, else the output is staged and the fragments are removed
build_after_write(written, stage, remove, output, listing, added, listed, removed) ==
    IF ~written THEN [events |-> <<>>, gone |-> {}, result |-> "Write"]
    ELSE stage_part(stage, output, added, remove_part(remove, listing, listed, removed))

\* commands/build.rs build, lines 103-119, once Builder::write has returned
CommandBuildFinish ==
    /\ pc = "idle"
    /\ calls /= <<>>
    /\ LastCall.op = "new"
    /\ LastCall.ret.ok
    /\ LastCall.arg.command = "build"
    /\ NewOk(calls) = runs
    /\ \E listing \in Perms(dir), added, listed \in BOOLEAN :
       \E removed \in GitRemoveOutcomes(collect_paths(listing)) :
         \E r \in {build_after_write(last.result = "Ok", Current.stage, Current.remove,
                                     DEFAULT_OUTPUT, listing, added, listed, removed)} :
            /\ calls' = calls \o r.events \o
                        <<Returned_("build", r.result, entry, fileBefore, file)>>
            /\ dir' = dir \ r.gone
    /\ UNCHANGED <<file, config, pc, runs, entry, contents, string, fileBefore, dirBefore,
                   last, stdout, algorithm>>

\* what the editor may do: it does not start, it leaves the file as it is,
\* or the file is saved with another text
EditOutcomes == {"NotSpawned", "Same", "Changed"}
\* the text an editor session leaves
Edited == <<"E", "\n">>

\* the create command returns, the new file holding `text`
created(others, name, text, events, result) ==
    [events |-> events, dir |-> others \cup {File(name, text)}, result |-> result]

\* commands/create.rs create, lines 170-172
create_add(others, name, text, events, add, added) ==
    IF ~add THEN created(others, name, text, events, "Ok")
    ELSE created(others, name, text, Append(events, GitAdd(<<name>>, added)),
                 IF added THEN "Ok" ELSE "Git")

\* commands/create.rs create, lines 166-168
create_edit(others, name, text, events, edit, edited, add, added) ==
    IF ~edit THEN create_add(others, name, text, events, add, added)
    ELSE IF edited = "NotSpawned"
    THEN created(others, name, text,
                 Append(events, [op |-> "edit", arg |-> name, ret |-> FALSE]), "Edit")
    ELSE create_add(others, name, IF edited = "Changed" THEN Edited ELSE text,
                    Append(events, [op |-> "edit", arg |-> name, ret |-> TRUE]),
                    add, added)

\* commands/create.rs create, lines 162-164: the content and a newline are
\* written; a failing write leaves the characters written so far
create_write(others, name, line, written, edit, edited, add, added) ==
    IF written < Len(line)
    THEN created(others, name, Take(line, written),
                 <<[op |-> "open", arg |-> name, ret |-> TRUE]>>, "Write")
    ELSE create_edit(others, name, line, <<[op |-> "open", arg |-> name, ret |-> TRUE]>>,
                     edit, edited, add, added)

\* the create command that does not validate the name
create_unvalidated(d, name, content, edit, add, opened, written, edited, added) ==
    IF (\E e \in d : e.utf8 /\ e.name = name) \/ ~opened
    THEN [events |-> <<[op |-> "open", arg |-> name, ret |-> FALSE]>>, dir |-> d,
          result |-> "Open"]
    ELSE create_write(d, name,
                      (IF content.some THEN content.text ELSE PLACEHOLDER) \o <<NEW_LINE>>,
                      written, edit, edited, add, added)

\* commands/create.rs create: the name is validated, the file is created
\* (create_new fails on a file that exists), written, edited and staged
create(d, name, content, edit, add, opened, written, edited, added) ==
    IF ~validate_str(name) THEN [events |-> <<>>, dir |-> d, result |-> "Parse"]
    ELSE IF (\E e \in d : e.utf8 /\ e.name = name) \/ ~opened
    THEN [events |-> <<[op |-> "open", arg |-> name, ret |-> FALSE]>>, dir |-> d,
          result |-> "Open"]
    ELSE create_write(d, name,
                      (IF content.some THEN content.text ELSE PLACEHOLDER) \o <<NEW_LINE>>,
                      written, edit, edited, add, added)

\* the names and contents given to the create command
CreateNames ==
    {<<"4", ".", "f", "i", "x">>, <<"1", ".", "f", "i", "x">>,
     <<"~", "s", ".", "d", "o", "c">>, <<"x", ".", "f", "i", "x">>, <<"9">>}
CreateContents == {[some |-> FALSE, text |-> <<>>], [some |-> TRUE, text |-> <<"N">>]}

\* how many characters a write puts in the file: all of them, or a few
Written(content) ==
    {Len(IF content.some THEN content.text ELSE PLACEHOLDER) + 1} \cup (0..MaxPartial)

\* commands/create.rs create
CommandCreate ==
    /\ calls = <<>>
    /\ \E name \in CreateNames, content \in CreateContents, edit, add \in BOOLEAN,
          opened, added \in BOOLEAN, edited \in EditOutcomes :
         \E written \in Written(content) :
            \E r \in {create(dir, name, content, edit, add, opened, written, edited, added)} :
               /\ calls' = calls \o
                           <<Command([command |-> "create", name |-> name,
                                      content |-> content, edit |-> edit, add |-> add])>> \o
                           r.events \o <<Returned_("create", r.result, <<>>, file, file)>>
               /\ dir' = r.dir
               /\ dirBefore' = dir
    /\ UNCHANGED <<file, config, pc, runs, entry, contents, string, fileBefore, last,
                   stdout, algorithm>>

\* the changelogs and the fragments directories the commands start from
CommandFiles ==
    {ExampleFile, [exists |-> TRUE, text |-> <<"A">>], [exists |-> FALSE, text |-> <<>>]}
CommandDirectories ==
    {{},
     {File(<<"1", ".", "f", "i", "x">>, <<"Q", "\n">>), File(<<"3", ".", "d", "o", "c">>, <<" ", "W">>)},
     {File(<<"2", ".", "f", "e", "a", "t", "u", "r", "e", ".", "m", "d">>, <<"Z">>),
      File(<<"x", ".", "f", "i", "x">>, <<"Y">>),
      Unreadable(<<"4", ".", "f", "i", "x">>)}}

InitCommand ==
    /\ file \in CommandFiles
    /\ dir \in CommandDirectories
    /\ config = DefaultConfig
    /\ algorithm \in WrapAlgorithms
    /\ pc = "idle"
    /\ runs = 0
    /\ entry = <<>>
    /\ contents = <<>>
    /\ string = <<>>
    /\ fileBefore = file
    /\ dirBefore = dir
    /\ last = None
    /\ stdout = <<>>
    /\ calls = <<>>

NextCommand ==
    \/ CommandBuild
    \/ CommandPreview
    \/ CommandCreate
    \/ CommandWrite
    \/ WriteOpen
    \/ WriteRead
    \/ WriteTruncate
    \/ WriteCompose
    \/ WriteFlush
    \/ CommandPreviewRun
    \/ CommandBuildFinish

SpecCommand == InitCommand /\ [][NextCommand]_vars

\* the changelogs and the directory that repeated builds start from
\* the changelogs that the build command is repeated on: text around the
\* marker, no marker, an empty file, the marker alone, whitespace around the
\* text after the marker, the marker twice, and no file
RepeatFiles ==
    {ExampleFile,
     [exists |-> TRUE, text |-> <<"A">>],
     [exists |-> TRUE, text |-> <<>>],
     [exists |-> TRUE, text |-> Marker],
     [exists |-> TRUE, text |-> <<"A">> \o Marker \o <<" ", "\n", "B", " ", "\n">>],
     [exists |-> TRUE, text |-> Marker \o <<"B">> \o Marker],
     [exists |-> FALSE, text |-> <<>>]}

InitRepeat ==
    /\ file \in RepeatFiles
    /\ dir = {File(<<"1", ".", "f", "i", "x">>, <<"Q", "\n">>)}
    /\ config = DefaultConfig
    /\ algorithm \in WrapAlgorithms
    /\ pc = "idle"
    /\ runs = 0
    /\ entry = <<>>
    /\ contents = <<>>
    /\ string = <<>>
    /\ fileBefore = file
    /\ dirBefore = dir
    /\ last = None
    /\ stdout = <<>>
    /\ calls = <<>>

NextRepeat ==
    \/ CommandBuildAgain
    \/ CommandWrite
    \/ WriteOpen
    \/ WriteRead
    \/ WriteTruncate
    \/ WriteCompose
    \/ WriteFlush
    \/ CommandBuildFinish

SpecRepeat == InitRepeat /\ [][NextRepeat]_vars

\* ---- the entry as a whole
\* values of config.levels: the default, and two whose entry and section
\* levels differ from it
LevelPairs ==
    {[entry |-> DEFAULT_ENTRY, section |-> DEFAULT_SECTION],
     [entry |-> 1, section |-> 2],
     [entry |-> 3, section |-> 1]}

\* values of config.indents.heading
Headings == {DEFAULT_HEADING, "="}

\* values of config.wrap: one that breaks the fragments below, and the default
EntryWidths == {MaxWidth, DEFAULT_WRAP}

\* directories whose sections hold integer and string ids, string ids that
\* differ, one id under two names, a fragment without content, a text of
\* several words, and a type without a default title
SectionDirectories ==
    {{},
     {File(<<"1", "0", ".", "f", "i", "x">>, <<"d">>),
      File(<<"2", ".", "f", "i", "x">>, <<"b">>),
      File(<<"~", "b", ".", "f", "i", "x">>, <<"x">>)},
     {File(<<"1", "0", ".", "f", "i", "x">>, <<"d">>),
      File(<<"~", "b", ".", "f", "i", "x">>, <<"x">>),
      File(<<"~", "a", ".", "f", "i", "x">>, <<"y">>),
      File(<<"~", "a", ".", "f", "i", "x", ".", "m", "d">>, <<"w">>)},
     {File(<<"~", "c", ".", "f", "i", "x">>, <<>>),
      File(<<"5", ".", "f", "e", "a", "t", "u", "r", "e">>, <<"f">>)},
     {File(<<"3", ".", "d", "o", "c">>, <<"g">>),
      File(<<"5", ".", "f", "e", "a", "t", "u", "r", "e">>,
           <<"a", "a", " ", "b", "b", " ", "c", "c">>),
      File(<<"6", ".", "f", "i", "x">>, <<"h">>),
      File(<<"7", ".", "f", "i", "x">>, <<"i">>)}}

InitEntry ==
    /\ dir \in SectionDirectories
    /\ \E ot \in OrderTypes, l \in LevelPairs, h \in Headings, w \in EntryWidths :
          config = [Config(Marker, ot.order, ot.types, DEFAULT_TITLE, DEFAULT_FRAGMENT)
                        EXCEPT !.levels = l, !.indents.heading = h, !.wrap = w]
    /\ algorithm \in WrapAlgorithms
    /\ AtRest

\* Builder::build is called
BuildEntry == calls = <<>> /\ Build

\* Builder::build_sections is called on the sections of the directory
BuildSections ==
    /\ calls = <<>>
    /\ \E listing \in Perms(dir) :
          Apply("build_sections", [sections |-> collect(listing)],
                build_sections(Builder, collect(listing)))

NextEntry == Collect \/ BuildEntry \/ BuildSections

SpecEntry == InitEntry /\ [][NextEntry]_vars

\* ----------------------------------------------------------------- claims
\* the last operation has returned
Returned(op) == pc = "idle" /\ last.op = op

\* the last operation built an entry, held in `entry`
Built == last.op /= "none" /\ last.result /= "Build"

WriteOk == Returned("write") /\ last.result = "Ok"

\* C1: whenever Builder::write returns an error, the content of the output
\* file is what it was before the call.
C1_ErrorLeavesFileUnchanged ==
    (Returned("write") /\ last.result /= "Ok") => file = fileBefore

\* C2: while Builder::write is running the file keeps its content until the
\* one write of the composed content: no state has the file truncated while
\* the new content is not yet composed and written.
C2_NoTruncatedFileBeforeWrite ==
    (last.op = "write" /\ pc /= "idle") => file = fileBefore

\* the text of c up to and including the first occurrence of m, when m
\* occurs in c
Occurs(c, m) == \E i \in 1..(Len(c) - Len(m) + 1) : SubSeq(c, i, i + Len(m) - 1) = m
FirstEnd(c, m) ==
    CHOOSE e \in Len(m)..Len(c) :
        /\ SubSeq(c, e - Len(m) + 1, e) = m
        /\ \A d \in Len(m)..(e - 1) : SubSeq(c, d - Len(m) + 1, d) /= m
ThroughMarker(c, m) == IF Occurs(c, m) THEN Take(c, FirstEnd(c, m)) ELSE <<>>
\* what follows the first occurrence of m in c, or the whole of c
Rest(c, m) == IF Occurs(c, m) THEN Drop(c, FirstEnd(c, m)) ELSE c
\* r without the whitespace that starts it
Trimmed(r) ==
    LET n == CHOOSE k \in 0..Len(r) :
                /\ \A j \in 1..k : IsWhitespace(r[j])
                /\ k < Len(r) => ~IsWhitespace(r[k + 1])
    IN Drop(r, n)
BlankLine == <<"\n", "\n">>

\* C3, as stated: a successful write leaves the reference splice: the text
\* through the first marker and a blank line (when the marker occurs), the
\* entry, and then the trimmed rest, after a blank line exactly when it is
\* not empty.
ReferenceSplice(c, m, e) ==
    (IF Occurs(c, m) THEN ThroughMarker(c, m) \o BlankLine ELSE <<>>) \o e \o
    (IF Trimmed(Rest(c, m)) /= <<>> THEN BlankLine \o Trimmed(Rest(c, m)) ELSE <<>>)

C3_WriteIsReferenceSplice ==
    WriteOk => file.text = ReferenceSplice(fileBefore.text, config.start, entry)

\* C3, amended: the entry is always followed by a newline; a second newline
\* and the trimmed rest follow exactly when the trimmed rest is not empty.
AmendedSplice(c, m, e) ==
    (IF Occurs(c, m) THEN ThroughMarker(c, m) \o BlankLine ELSE <<>>) \o e \o <<"\n">> \o
    (IF Trimmed(Rest(c, m)) /= <<>> THEN <<"\n">> \o Trimmed(Rest(c, m)) ELSE <<>>)

C3_WriteIsSpliceWithNewline ==
    WriteOk => file.text = AmendedSplice(fileBefore.text, config.start, entry)

\* a write succeeded on a file that has text before the marker and nothing
\* but whitespace after it
C3_Witness ==
    /\ WriteOk
    /\ Occurs(fileBefore.text, config.start)
    /\ Rest(fileBefore.text, config.start) /= <<>>
    /\ Trimmed(Rest(fileBefore.text, config.start)) = <<>>
    /\ Len(ThroughMarker(fileBefore.text, config.start)) > Len(config.start)

\* non-whitespace text follows the first marker of the file written
MarkerThenText ==
    /\ WriteOk
    /\ Occurs(fileBefore.text, config.start)
    /\ Trimmed(Rest(fileBefore.text, config.start)) /= <<>>

\* C4, as stated: with non-whitespace text after the marker, a write leaves
\* the text through the marker, a blank line, the entry, a single newline
\* and the trimmed remainder; writing the entry E to "A\n<!-- marker -->\nB"
\* yields "A\n<!-- marker -->\n\nE\nB".
C4_SingleNewlineBeforeRemainder ==
    /\ MarkerThenText =>
          file.text = ThroughMarker(fileBefore.text, config.start) \o BlankLine \o entry
                      \o <<"\n">> \o Trimmed(Rest(fileBefore.text, config.start))
    /\ (WriteOk /\ fileBefore.text = ExampleContents /\ config.start = ExampleMarker) =>
          file.text = <<"A", "\n">> \o ExampleMarker \o <<"\n", "\n">> \o entry
                      \o <<"\n", "B">>

\* C4, amended: the entry is followed by two newlines (a blank line) and then
\* the trimmed remainder; writing the entry E to "A\n<!-- marker -->\nB"
\* yields "A\n<!-- marker -->\n\nE\n\nB".
C4_BlankLineBeforeRemainder ==
    /\ MarkerThenText =>
          file.text = ThroughMarker(fileBefore.text, config.start) \o BlankLine \o entry
                      \o <<"\n", "\n">> \o Trimmed(Rest(fileBefore.text, config.start))
    /\ (WriteOk /\ fileBefore.text = ExampleContents /\ config.start = ExampleMarker) =>
          file.text = <<"A", "\n">> \o ExampleMarker \o <<"\n", "\n">> \o entry
                      \o <<"\n", "\n", "B">>
    /\ Splice(ExampleContents, ExampleMarker, <<"E">>)
          = <<"A", "\n">> \o ExampleMarker \o <<"\n", "\n", "E", "\n", "\n", "B">>

\* the write of the example has succeeded
C4_Witness ==
    /\ WriteOk
    /\ fileBefore.text = ExampleContents
    /\ config.start = ExampleMarker

\* C5, as stated: a successful write only inserts text: deleting one stretch
\* of the new content gives back the original file.
C5_OnlyInserts ==
    WriteOk =>
        \E i \in 0..Len(file.text) : \E j \in i..Len(file.text) :
            Take(file.text, i) \o Drop(file.text, j) = fileBefore.text

\* C5, amended: a successful write inserts text and drops the whitespace that
\* directly followed the marker (or started a file without the marker): the
\* new content starts with the original through its first marker and ends
\* with the rest of the original without its leading whitespace, and the text
\* between the two is the entry and its separators and nothing else: a blank
\* line before it when the marker occurs, one newline after it, and a second
\* newline when the trimmed rest is not empty.
C5_InsertsAndTrims ==
    WriteOk =>
        LET through == ThroughMarker(fileBefore.text, config.start)
            rest == Trimmed(Rest(fileBefore.text, config.start))
            inserted == SubSeq(file.text, Len(through) + 1, Len(file.text) - Len(rest))
        IN /\ Len(file.text) >= Len(through) + Len(rest) + Len(entry)
           /\ Take(file.text, Len(through)) = through
           /\ Drop(file.text, Len(file.text) - Len(rest)) = rest
           /\ inserted =
                 (IF Occurs(fileBefore.text, config.start) THEN <<"\n", "\n">> ELSE <<>>)
                 \o entry \o
                 (IF rest /= <<>> THEN <<"\n", "\n">> ELSE <<"\n">>)

\* a write succeeded on a file with text before the marker and whitespace,
\* then text, after it
C5_Witness ==
    /\ WriteOk
    /\ Occurs(fileBefore.text, config.start)
    /\ Len(ThroughMarker(fileBefore.text, config.start)) > Len(config.start)
    /\ Rest(fileBefore.text, config.start) /= Trimmed(Rest(fileBefore.text, config.start))
    /\ Trimmed(Rest(fileBefore.text, config.start)) /= <<>>

\* C6: Builder::write never creates the output file: called when the file
\* does not exist, it returns an error, and the file does not exist at any
\* point of the call or after it.
C6_WriteNeverCreates ==
    (last.op = "write" /\ ~fileBefore.exists) =>
        /\ ~file.exists
        /\ last.result /= "Ok"
        /\ pc \in {"idle", "open"}

\* write has returned its error for a missing file
C6_Witness ==
    /\ Returned("write")
    /\ ~fileBefore.exists
    /\ last.result = "OpenFile"
    /\ entry /= <<>>

\* C7: Builder::preview leaves the output file and every fragment file as
\* they were, whether it returns the entry or an error.
C7_PreviewChangesNoFile ==
    Returned("preview") => file = fileBefore /\ dir = dirBefore

\* a preview printed an entry built from fragments, next to an existing file
C7_Witness ==
    /\ Returned("preview")
    /\ last.result = "Ok"
    /\ dir /= {}
    /\ file.exists
    /\ Occurs(stdout, entry \o <<"\n">>)
    /\ entry /= file.text

\* the lines of a text
Lines(text) == Split(text, "\n")

\* the titles of the section headings of an entry, in their order
SectionTitles(e) ==
    LET mark == Repeat(config.indents.heading, config.levels.section) \o <<" ">>
        heads == SelectSeq(Lines(e), LAMBDA l : StartsWith(l, mark))
    IN [i \in 1..Len(heads) |-> Drop(heads[i], Len(mark))]

\* the types of the fragment files that load
CollectedTypes ==
    {PartialFromStr(f.name).partial.type_name :
        f \in {g \in dir : g.utf8 /\ g.readable /\ PartialFromStr(g.name).ok}}

InOrder(type_name) == \E i \in 1..Len(config.order) : config.order[i] = type_name

\* a type has a display title: config.types or the default mapping names it
Titled(type_name) == type_name \in (DOMAIN config.types) \cup (DOMAIN default_types)

\* the display title of a type: that of config.types, else the default
TitleOf(type_name) ==
    IF type_name \in DOMAIN config.types THEN config.types[type_name]
    ELSE default_types[type_name]

\* the content of a fragment file shows in the entry
Shown(f) == Occurs(entry, trim(f.content))

Loads(f) == f.utf8 /\ f.readable /\ PartialFromStr(f.name).ok
TypeOf(f) == PartialFromStr(f.name).partial.type_name

\* C8: the sections of a built entry are the types of config.order that have
\* a display title and a collected section, in the sequence of config.order;
\* a collected fragment whose type config.order does not list is not in the
\* entry.
C8_SectionsFollowOrder ==
    Built =>
        /\ SectionTitles(entry) =
              LET chosen == SelectSeq(config.order,
                                      LAMBDA t : Titled(t) /\ t \in CollectedTypes)
              IN [i \in 1..Len(chosen) |-> TitleOf(chosen[i])]
        /\ \A f \in dir : (Loads(f) /\ ~InOrder(TypeOf(f))) => ~Shown(f)

\* an entry with the two sections of config.order, in its sequence, built
\* from a directory that also holds a fragment of an unlisted type
C8_Witness ==
    /\ Built
    /\ config.order = <<T_fix, T_feature>>
    /\ SectionTitles(entry) = <<Title_Fixes, Title_Features>>
    /\ \E f \in dir : Loads(f) /\ ~InOrder(TypeOf(f))

\* C9, as stated: a section is rendered for a type only when config.types
\* holds a title for it: a listed type with collected fragments that
\* config.types does not name gets no section.
C9_OnlyConfiguredTitles ==
    Built =>
        \A f \in dir :
            (Loads(f) /\ InOrder(TypeOf(f)) /\ TypeOf(f) \notin DOMAIN config.types)
                => ~Shown(f)

\* the section heading of a title
HeadingLine(title) ==
    Repeat(config.indents.heading, config.levels.section) \o <<" ">> \o title

IsLine(e, line) == \E i \in 1..Len(Lines(e)) : Lines(e)[i] = line

\* C10: the titles of the section headings are those of the default mapping
\* extended by config.types: a type that config.types names is headed by the
\* title config.types gives it, not by its default title, and a default type
\* that config.types does not name is headed by its default title.
C10_TypesExtendDefaults ==
    Built =>
        \A t \in CollectedTypes :
            InOrder(t) =>
                /\ t \in DOMAIN config.types => IsLine(entry, HeadingLine(config.types[t]))
                /\ (t \in DOMAIN config.types /\ t \in DOMAIN default_types
                    /\ config.types[t] /= default_types[t])
                      => ~IsLine(entry, HeadingLine(default_types[t]))
                /\ (t \notin DOMAIN config.types /\ t \in DOMAIN default_types)
                      => IsLine(entry, HeadingLine(default_types[t]))

\* an entry with a section whose title config.types changes and a section
\* that keeps its default title
C10_Witness ==
    /\ Built
    /\ IsLine(entry, HeadingLine(Title_Bugs))
    /\ IsLine(entry, HeadingLine(Title_Features))
    /\ config.types[T_fix] = Title_Bugs
    /\ T_feature \notin DOMAIN config.types

\* no fragment file of the directory gives a section: none loads, or the type
\* of every one that loads is missing from config.order or has no title
NoSection == \A f \in dir : Loads(f) => ~(InOrder(TypeOf(f)) /\ Titled(TypeOf(f)))

\* the entry heading and the title "{{version}} ({{date}})" rendered
HeadedTitle ==
    Repeat(config.indents.heading, config.levels.entry) \o <<" ">> \o
    Context.version \o <<" ", "(">> \o Date \o <<")">>

\* C11: when no section produces output, build returns exactly the entry
\* heading and the rendered title, a blank line and the literal
\* "No significant changes.", with no section heading.
C11_FallbackWhenNoSection ==
    (Built /\ NoSection) =>
        /\ entry = HeadedTitle \o BlankLine \o
                   <<"N", "o", " ", "s", "i", "g", "n", "i", "f", "i", "c", "a", "n", "t",
                     " ", "c", "h", "a", "n", "g", "e", "s", ".">>
        /\ SectionTitles(entry) = <<>>

\* an entry was built from a directory whose only loadable fragments are of a
\* type that config.order does not list
C11_Witness ==
    /\ Built
    /\ NoSection
    /\ \E f \in dir : Loads(f)
    /\ config.formats.title = DEFAULT_TITLE
    /\ Len(entry) > Len(NO_SIGNIFICANT_CHANGES)

\* a call of `op` that returned a value
Called(c, op) == c.op = op /\ c.ret.ok

\* the fragment that a loadable directory entry holds
FragmentOf(f) ==
    [partial |-> PartialFromStr(f.name).partial, content |-> trim(f.content)]

\* the number that the digits of an integer id denote
RECURSIVE NumberOf(_)
NumberOf(ds) ==
    IF ds = <<>> THEN 0
    ELSE 10 * NumberOf(Take(ds, Len(ds) - 1)) + (CharCode(ds[Len(ds)]) - CharCode("0"))

\* the numbers of the integer ids of a section, in its order
IntegerIds(section) ==
    LET ints == SelectSeq(section, LAMBDA x : x.partial.id.kind = "Integer")
    IN [i \in 1..Len(ints) |-> NumberOf(ints[i].partial.id.int)]

Ascending(ns) == \A i, j \in 1..Len(ns) : i < j => ns[i] <= ns[j]

\* how many places of a section hold the fragment x
Places(section, x) == Cardinality({i \in 1..Len(section) : section[i] = x})

\* C12: for every order in which the directory is listed, collect returns
\* each section with its integer-id fragments in ascending numeric order of
\* id, and every fragment that loads is in the section keyed by its own
\* type_name exactly once, and in no other section.
C12_SectionsSortedByNumber ==
    \A k \in 1..Len(calls) :
        Called(calls[k], "collect") =>
            LET sections == calls[k].ret.sections
            IN /\ \A t \in DOMAIN sections : Ascending(IntegerIds(sections[t]))
               /\ \A f \in dir :
                     Loads(f) =>
                        /\ TypeOf(f) \in DOMAIN sections
                        /\ \A t \in DOMAIN sections :
                              Places(sections[t], FragmentOf(f)) =
                                 (IF t = TypeOf(f) THEN 1 ELSE 0)

\* collect was given the files of ids 10, 3 and 2 in this order and returned
\* them as 2, 3, 10
C12_Witness ==
    /\ calls /= <<>>
    /\ Called(calls[1], "collect")
    /\ Len(calls[1].arg.listing) = 3
    /\ [i \in 1..3 |-> calls[1].arg.listing[i].name] =
          <<<<"1", "0", ".", "f", "i", "x">>, <<"3", ".", "f", "i", "x">>,
            <<"2", ".", "f", "i", "x">>>>
    /\ IntegerIds(calls[1].ret.sections[T_fix]) = <<2, 3, 10>>

\* the fragments that the sections hold
Held(sections) ==
    UNION {{sections[t][i] : i \in 1..Len(sections[t])} : t \in DOMAIN sections}

\* C13: collect returns an error only when the listing of the directory
\* cannot be obtained; with the listing obtained, every entry that fails to
\* load (malformed name, name that is not UTF-8, unreadable file) is skipped
\* without an error and every entry that loads is in the sections returned.
C13_CollectSkipsFailedLoads ==
    \A k \in 1..Len(calls) :
        calls[k].op = "collect" =>
            /\ calls[k].ret.ok <=> calls[k].arg.listed
            /\ calls[k].ret.ok =>
                  Held(calls[k].ret.sections) = {FragmentOf(f) : f \in {g \in dir : Loads(g)}}

\* collect returned the one fragment of a directory that also holds a name
\* whose id is no number and an entry of another kind that fails to load
C13_Witness ==
    /\ calls /= <<>>
    /\ Called(calls[1], "collect")
    /\ \E f \in dir : f.name = <<"x", ".", "f", "i", "x">>
    /\ \E f \in dir : ~f.utf8 \/ ~f.readable
    /\ \E f \in dir : f.name = <<"7", ".", "f", "e", "a", "t", "u", "r", "e">>
    /\ DOMAIN calls[1].ret.sections = {T_feature}
    /\ Len(calls[1].ret.sections[T_feature]) = 1

\* C14: collect_paths and collect agree on what counts as a fragment: the
\* paths that collect_paths returns are the entries of the directory that
\* collect loads into its sections.
C14_PathsAreLoadedEntries ==
    \A k \in 1..Len(calls) :
        Called(calls[k], "collect_paths") =>
            {calls[k].ret.paths[i] : i \in 1..Len(calls[k].ret.paths)}
                = {f \in dir : Loads(f)}

\* C15: for a fragment with a string id, render_fragment does not evaluate
\* the fragment template and returns the content of the fragment unchanged,
\* whatever the template is, one that fails to render included; for a
\* fragment with an integer id it renders the template: "{{content}} (#{{id}})"
\* gives the content, " (#", the id and ")", and a template that names a
\* missing field gives an error.
C15_StringIdSkipsTemplate ==
    \A k \in 1..Len(calls) :
        calls[k].op = "render_fragment" =>
            LET fragment == calls[k].arg
                ret == calls[k].ret
            IN IF fragment.partial.id.kind = "String"
               THEN ret.ok /\ ret.text = fragment.content
               ELSE /\ config.formats.fragment = DEFAULT_FRAGMENT =>
                          /\ ret.ok
                          /\ ret.text = fragment.content \o <<" ", "(", "#">> \o
                                        fragment.partial.id.int \o <<")">>
                    /\ config.formats.fragment = MissingFieldFragment => ~ret.ok

\* "Just a note." with a string id came back unchanged under a template that
\* fails to render
C15_Witness ==
    /\ calls /= <<>>
    /\ calls[1].op = "render_fragment"
    /\ calls[1].arg.partial.id.kind = "String"
    /\ calls[1].arg.content = JustANote
    /\ config.formats.fragment = MissingFieldFragment
    /\ calls[1].ret.text = JustANote

\* the words of a text: its longest stretches without a space or a newline
RECURSIVE WordsOf(_)
WordsOf(text) ==
    IF text = <<>> THEN <<>>
    ELSE IF Head(text) \in {" ", "\n"} THEN WordsOf(Tail(text))
    ELSE LET n == CHOOSE k \in 1..Len(text) :
                     /\ \A j \in 1..k : text[j] \notin {" ", "\n"}
                     /\ k < Len(text) => text[k + 1] \in {" ", "\n"}
         IN <<Take(text, n)>> \o WordsOf(Drop(text, n))

\* C16: every line of the wrapped output, indentation included, is at most
\* config.wrap characters long, unless it holds a single word that alone is
\* longer than config.wrap; and no word of the input is split: the words of
\* the output, after the bullet, are the words of the input.
C16_LinesWithinWidth ==
    \A k \in 1..Len(calls) :
        calls[k].op = "wrap_str" =>
            LET out == calls[k].ret.text
            IN /\ \A i \in 1..Len(Lines(out)) :
                     \/ Len(Lines(out)[i]) <= config.wrap
                     \/ /\ Len(WordsOf(Drop(Lines(out)[i], 2))) = 1
                        /\ Len(WordsOf(Drop(Lines(out)[i], 2))[1]) > config.wrap
               /\ WordsOf(calls[k].arg) =
                     WordsOf(Concat([i \in 1..Len(Lines(out)) |->
                                        Drop(Lines(out)[i], 2) \o <<"\n">>]))

\* the lines of the text given to wrap_str that have no character
EmptyLines(text) == Cardinality({i \in 1..Len(Lines(text)) : Lines(text)[i] = <<>>})

\* C17, as stated: in the wrapped output the first line starts with the
\* bullet character and one space, and every continuation line starts with
\* two spaces.
C17_EveryLineIndented ==
    \A k \in 1..Len(calls) :
        calls[k].op = "wrap_str" =>
            LET out == Lines(calls[k].ret.text)
            IN /\ StartsWith(out[1], <<config.indents.bullet, " ">>)
               /\ \A i \in 2..Len(out) : StartsWith(out[i], <<" ", " ">>)

\* C17, amended: a line of the text that has no character stays empty, with
\* no indentation; every other line of the output starts with the bullet
\* character and one space when it is the first line, and with two spaces
\* when it is a continuation line.
C17_NonEmptyLinesIndented ==
    \A k \in 1..Len(calls) :
        calls[k].op = "wrap_str" =>
            LET out == Lines(calls[k].ret.text)
            IN /\ out[1] = <<>> \/ StartsWith(out[1], <<config.indents.bullet, " ">>)
               /\ \A i \in 2..Len(out) : out[i] = <<>> \/ StartsWith(out[i], <<" ", " ">>)
               /\ EmptyLines(calls[k].ret.text) = EmptyLines(calls[k].arg)

\* a text of a word, an empty line and a word was wrapped with the bullet
\* "*": the bullet, the empty line, the two spaces
C17_Witness ==
    /\ calls /= <<>>
    /\ calls[1].op = "wrap_str"
    /\ calls[1].arg = <<"a", "\n", "\n", "b">>
    /\ config.indents.bullet = "*"
    /\ calls[1].ret.text = <<"*", " ", "a", "\n", "\n", " ", " ", "b">>

\* C18: two builds of the same directory with the same config, context and
\* date return the same entry text, whatever order the directory is listed
\* in each time, also when several files have the same id and type.
C18_BuildIgnoresListingOrder ==
    \A i, j \in 1..Len(calls) :
        (/\ calls[i].op = "build" /\ calls[j].op = "build"
         /\ calls[i].arg.listed /\ calls[j].arg.listed)
            => calls[i].ret = calls[j].ret

\* "1.fix" and "1.fix.md" were listed in one order for the first build and
\* in the other for the second, and both builds gave an entry with the two
\* fragments
C18_Witness ==
    /\ Len(calls) = 2
    /\ calls[1].op = "build" /\ calls[2].op = "build"
    /\ calls[1].arg.listed /\ calls[2].arg.listed
    /\ Len(calls[1].arg.listing) = 2
    /\ calls[1].arg.listing[1].name = <<"1", ".", "f", "i", "x">>
    /\ calls[1].arg.listing[2].name = <<"1", ".", "f", "i", "x", ".", "m", "d">>
    /\ calls[2].arg.listing[1] = calls[1].arg.listing[2]
    /\ calls[2].arg.listing[2] = calls[1].arg.listing[1]
    /\ calls[1].ret.ok /\ calls[2].ret.ok
    /\ Occurs(calls[2].ret.text, <<"-", " ", "a", " ", "(", "#", "1", ")", "\n", "\n", "-", " ", "e", " ", "(", "#", "1", ")">>)

\* the name has no dot: it is one segment
OneSegment(name) == \A i \in 1..Len(name) : name[i] /= DOT

\* C19: parsing a name that has no '.' fails with UnexpectedEof, whatever
\* its single segment contains.
C19_OneSegmentIsUnexpectedEof ==
    \A k \in 1..Len(calls) :
        (calls[k].op = "parse" /\ OneSegment(calls[k].arg))
            => (~calls[k].ret.ok /\ calls[k].ret.err = "UnexpectedEof")

\* the text of the name before its first dot, and the text between its
\* first dot and its second (or the end of the name)
FirstDot(name) ==
    CHOOSE i \in 1..Len(name) : name[i] = DOT /\ \A j \in 1..(i - 1) : name[j] /= DOT
FirstSegment(name) == Take(name, FirstDot(name) - 1)
SecondSegment(name) ==
    LET i == FirstDot(name)
        ends == {e \in (i + 1)..Len(name) : name[e] = DOT}
        e == IF ends = {} THEN Len(name) + 1
             ELSE CHOOSE e \in ends : \A f \in ends : e <= f
    IN SubSeq(name, i + 1, e - 1)

\* what the first two segments say of the result: a string id after the
\* prefix, an integer id, or InvalidId; the second segment is the type
OfSegments(first, second) ==
    IF first /= <<>> /\ first[1] = STRING_PREFIX
    THEN [ok |-> TRUE,
          partial |-> [id |-> [kind |-> "String", int |-> <<>>, str |-> Tail(first)],
                       type_name |-> second]]
    ELSE IF ParseInteger(first).ok
    THEN [ok |-> TRUE,
          partial |-> [id |-> [kind |-> "Integer", int |-> ParseInteger(first).value,
                               str |-> <<>>],
                       type_name |-> second]]
    ELSE [ok |-> FALSE, err |-> "InvalidId"]

OneFix ==
    [ok |-> TRUE,
     partial |-> [id |-> [kind |-> "Integer", int |-> <<"1">>, str |-> <<>>],
                  type_name |-> <<"f", "i", "x">>]]

\* C20: for a name with at least two segments the result is decided by the
\* first two: a first segment that starts with '~' gives the string id after
\* the '~', any other is parsed as an unsigned integer and gives InvalidId
\* when that fails; the type is the second segment as it stands; further
\* segments change nothing, and "1.fix.md" parses as "1.fix" does.
C20_ParseReadsTwoSegments ==
    \A k \in 1..Len(calls) :
        (calls[k].op = "parse" /\ ~OneSegment(calls[k].arg)) =>
            /\ calls[k].ret = OfSegments(FirstSegment(calls[k].arg), SecondSegment(calls[k].arg))
            /\ calls[k].arg \in {<<"1", ".", "f", "i", "x">>,
                                 <<"1", ".", "f", "i", "x", ".", "m", "d">>}
                  => calls[k].ret = OneFix

\* "1.fix.md" was parsed: the id 1 and the type "fix"
C20_Witness ==
    /\ calls /= <<>>
    /\ calls[1].op = "parse"
    /\ calls[1].arg = <<"1", ".", "f", "i", "x", ".", "m", "d">>
    /\ calls[1].ret = OneFix

\* C21: every partial that Partial::from_str returns has a type_name that
\* is not empty; so every key of the collected sections, and every fragment
\* held in a section, has a type name that is not empty.
C21_TypeNameNotEmpty ==
    \A k \in 1..Len(calls) :
        /\ (calls[k].op = "parse" /\ calls[k].ret.ok)
              => calls[k].ret.partial.type_name /= <<>>
        /\ (calls[k].op = "collect" /\ calls[k].ret.ok)
              => \A name \in DOMAIN calls[k].ret.sections :
                    /\ name /= <<>>
                    /\ \A i \in 1..Len(calls[k].ret.sections[name]) :
                          calls[k].ret.sections[name][i].partial.type_name /= <<>>

\* how many times p occurs in s
Occurrences(s, p) ==
    Cardinality({i \in 1..(Len(s) - Len(p) + 1) : SubSeq(s, i, i + Len(p) - 1) = p})
\* the text of a template opens more expressions than it closes
Unclosed(source) == Occurrences(source, OPEN) > Occurrences(source, CLOSE)

\* C22: when the title or the fragment template is syntactically invalid,
\* Builder::new fails with InitError, and the build or preview command
\* returns it before Builder::write or Builder::preview starts: the fragments
\* directory is not listed, no fragment is read, the output file is not
\* opened.
C22_InvalidTemplateFailsAtNew ==
    \A k \in 1..Len(calls) :
        (calls[k].op = "new" /\ (Unclosed(calls[k].arg.title) \/ Unclosed(calls[k].arg.fragment)))
            => /\ ~calls[k].ret.ok
               /\ calls[k].ret.error = "Init"
               /\ Len(calls) = k + 1
               /\ calls[k + 1].op = "return"
               /\ calls[k + 1].ret.result = "Init"
               /\ runs = 0
               /\ pc = "idle"
               /\ last = None
               /\ file = fileBefore
               /\ stdout = <<>>

\* the build command was run with a fragment template that is not closed,
\* in a directory that holds fragments: it returned the InitError
C22_Witness ==
    /\ Len(calls) = 3
    /\ calls[2].op = "new"
    /\ calls[2].arg.command = "build"
    /\ calls[2].arg.fragment = UnclosedFragmentSource
    /\ calls[3].ret.result = "Init"
    /\ dir /= {}
    /\ file = ExampleFile

\* a template names a field that the data rendered with it does not have
NamesFieldOutside(template, fields) ==
    \E i \in 1..Len(template) : template[i].var /\ template[i].name \notin fields
TitleFails == NamesFieldOutside(config.formats.title, {"name", "version", "url", "date"})
FragmentFails ==
    NamesFieldOutside(config.formats.fragment,
                      {"name", "version", "url", "id", "type_name", "content"})
\* a fragment file whose fragment the build renders with the template
Rendered(f) ==
    /\ Loads(f)
    /\ Head(f.name) /= STRING_PREFIX
    /\ InOrder(TypeOf(f))
    /\ Titled(TypeOf(f))

\* C23: when rendering the title fails, build returns a BuildError of source
\* BuildTitle; when the directory is collected and rendering a fragment of
\* integer id fails, one of source BuildFragment; in both cases there is no
\* entry text, and Builder::write leaves the output file as it was.
C23_RenderErrorAbortsBuild ==
    (pc = "idle" /\ last.op /= "none") =>
        /\ TitleFails =>
              /\ last.result = "Build" /\ last.source = "BuildTitle"
              /\ entry = <<>>
              /\ file = fileBefore
        /\ (~TitleFails /\ FragmentFails /\ last.source /= "Collect"
                /\ \E f \in dir : Rendered(f)) =>
              /\ last.result = "Build" /\ last.source = "BuildFragment"
              /\ entry = <<>>
              /\ file = fileBefore

\* Builder::write returned the error of a fragment that did not render,
\* in a directory that also holds a fragment of string id
C23_Witness ==
    /\ Returned("write")
    /\ last.result = "Build" /\ last.source = "BuildFragment"
    /\ config.formats.fragment = MissingFieldFragment
    /\ \E f \in dir : Rendered(f)
    /\ \E f \in dir : Loads(f) /\ Head(f.name) = STRING_PREFIX
    /\ file = ExampleFile

\* the position in the log of the command that ran last
CurrentAt ==
    CHOOSE k \in 1..Len(calls) :
        calls[k].op = "command" /\ \A j \in (k + 1)..Len(calls) : calls[j].op /= "command"

\* C24: when the name given to the create command does not parse as a
\* fragment name, the command returns the parse error, creates no file and
\* starts neither the editor nor git.
C24_CreateValidatesName ==
    (calls /= <<>> /\ Current.command = "create" /\ ~PartialFromStr(Current.name).ok) =>
        /\ Len(calls) = CurrentAt + 1
        /\ LastCall.op = "return"
        /\ LastCall.ret.result = "Parse"
        /\ dir = dirBefore

\* create was asked to make "x.fix", to open the editor and to stage the
\* file: it returned the parse error
C24_Witness ==
    /\ calls /= <<>>
    /\ Current.command = "create"
    /\ Current.name = <<"x", ".", "f", "i", "x">>
    /\ Current.edit /\ Current.add
    /\ LastCall.ret.result = "Parse"
    /\ dir /= {}

\* the places in the log of the calls of git that the running command made
GitCalls(op) == {k \in (CurrentAt + 1)..Len(calls) : calls[k].op = op}

\* C25: in the build command git add and git rm are started only after
\* Builder::write has returned without an error, and git rm only after git
\* add when both are requested; when write fails neither is started, so no
\* fragment file is removed unless the entry is in the changelog.
C25_GitOnlyAfterWrite ==
    (calls /= <<>> /\ Current.command = "build") =>
        /\ (GitCalls("git add") \cup GitCalls("git rm") /= {}) =>
              /\ pc = "idle"
              /\ last.op = "write" /\ last.result = "Ok"
        /\ \A k \in GitCalls("git rm") :
              Current.stage => \E j \in GitCalls("git add") : j < k
        /\ dir /= dirBefore =>
              /\ last.op = "write" /\ last.result = "Ok"
              /\ Occurs(file.text, entry)

\* the build command was asked to stage and to remove: write returned Ok,
\* git add and then git rm were started, and the fragments are gone
C25_Witness ==
    /\ calls /= <<>>
    /\ Current.command = "build"
    /\ Current.stage /\ Current.remove
    /\ GitCalls("git add") /= {}
    /\ GitCalls("git rm") /= {}
    /\ last.result = "Ok"
    /\ dirBefore /= {}
    /\ dir /= dirBefore

\* the entries of a directory whose file names parse as fragment names
NamedAsFragments(d) == {e \in d : e.utf8 /\ PartialFromStr(e.name).ok}

\* C30: the paths that the build command gives to git rm are the entries of
\* the fragments directory, as listed after the write, whose file names
\* parse as fragment names, each once; among them the fragments that the
\* entry does not show because config.order or the titles leave their type
\* out.
C30_RemovesEveryNamedFragment ==
    (calls /= <<>> /\ Current.command = "build") =>
        \A k \in GitCalls("git rm") :
            /\ Range(calls[k].arg) = NamedAsFragments(dirBefore)
            /\ Len(calls[k].arg) = Cardinality(NamedAsFragments(dirBefore))
            /\ calls[k - 1].op = "collect_paths"
            /\ Range(calls[k - 1].arg.listing) = dirBefore
            /\ calls[k].arg =
                  SelectSeq(calls[k - 1].arg.listing, LAMBDA e : e \in NamedAsFragments(dirBefore))

\* git rm was given "3.doc", whose type the default order does not list
\* and whose content the written entry does not show
C30_Witness ==
    /\ calls /= <<>>
    /\ Current.command = "build"
    /\ \E k \in GitCalls("git rm") :
          File(<<"3", ".", "d", "o", "c">>, <<" ", "W">>) \in Range(calls[k].arg)
    /\ last.result = "Ok"
    /\ ~Occurs(file.text, <<"W">>)
    /\ Occurs(file.text, <<"Q">>)

\* texts joined with one blank line between them
RECURSIVE WithBlankLines(_)
WithBlankLines(texts) ==
    IF texts = <<>> THEN <<>>
    ELSE IF Len(texts) = 1 THEN texts[1]
    ELSE texts[1] \o <<"\n", "\n">> \o WithBlankLines(Tail(texts))

\* the types of config.order that have a display title and a section
SectionsShown(sections) ==
    SelectSeq(config.order, LAMBDA t : Titled(t) /\ t \in DOMAIN sections)

\* the fragments of a section, each rendered and wrapped, in their order
FragmentTexts(section) ==
    [i \in 1..Len(section) |-> build_fragment(Builder, section[i]).text]

\* a section: its heading, the display title, a blank line, its fragments
SectionText(type_name, section) ==
    [i \in 1..config.levels.section |-> config.indents.heading] \o <<" ">> \o
    TitleOf(type_name) \o <<"\n", "\n">> \o WithBlankLines(FragmentTexts(section))

SectionTexts(shown, sections) ==
    [i \in 1..Len(shown) |-> SectionText(shown[i], sections[shown[i]])]

\* the section block of an entry
SectionBlock(sections) ==
    WithBlankLines(SectionTexts(SectionsShown(sections), sections))

\* the title "{{version}} ({{date}})" rendered
RenderedTitle == Context.version \o <<" ", "(">> \o Date \o <<")">>

BlockOrFallback(block) ==
    IF block = <<>>
    THEN <<"N", "o", " ", "s", "i", "g", "n", "i", "f", "i", "c", "a", "n", "t",
           " ", "c", "h", "a", "n", "g", "e", "s", ".">>
    ELSE block

\* the entry e starts with the heading character n times, a space, the
\* title and two newlines, and the text `rest` is all that follows
EntryIs(e, n, rest) ==
    /\ Len(e) >= n + 3 + Len(RenderedTitle)
    /\ \A i \in 1..n : e[i] = config.indents.heading
    /\ e[n + 1] = " "
    /\ SubSeq(e, n + 2, n + 1 + Len(RenderedTitle)) = RenderedTitle
    /\ SubSeq(e, n + 2 + Len(RenderedTitle), n + 3 + Len(RenderedTitle)) = <<"\n", "\n">>
    /\ Drop(e, n + 3 + Len(RenderedTitle)) = rest

\* C26: every entry that build returns is the heading character repeated
\* levels.entry times, one space, the rendered title, two newlines, and then
\* the joined section block, or the fallback literal when the block is
\* empty; nothing precedes the heading and nothing follows the last section.
C26_EntryIsHeadingTitleBlock ==
    \A k \in 1..Len(calls) :
        (calls[k].op = "build" /\ calls[k].ret.ok) =>
            EntryIs(calls[k].ret.text, config.levels.entry,
                    BlockOrFallback(SectionBlock(collect(calls[k].arg.listing))))

\* build returned an entry with sections, under an entry level and a heading
\* character that are not the defaults
C26_Witness ==
    /\ Len(calls) = 1
    /\ calls[1].op = "build"
    /\ calls[1].ret.ok
    /\ config.levels.entry = 3
    /\ config.indents.heading = "="
    /\ SectionsShown(collect(calls[1].arg.listing)) /= <<>>
    /\ calls[1].ret.text[Len(calls[1].ret.text)] /= "\n"

\* C27: the section block is the sections of config.order in turn, joined by
\* one blank line; each is the heading character repeated levels.section
\* times, one space, the display title of the type, two newlines, and the
\* fragments of the section in its order, each rendered and wrapped, joined
\* by one blank line.
C27_SectionsAreHeadedAndJoined ==
    \A k \in 1..Len(calls) :
        (calls[k].op = "build_sections" /\ calls[k].ret.ok) =>
            calls[k].ret.text = SectionBlock(calls[k].arg.sections)

\* build_sections rendered two sections or more, one of them with two
\* fragments, one fragment wrapped on several lines, under a section level
\* that is not the default
C27_Witness ==
    /\ Len(calls) = 1
    /\ calls[1].op = "build_sections"
    /\ calls[1].ret.ok
    /\ config.levels.section /= DEFAULT_SECTION
    /\ Len(SectionsShown(calls[1].arg.sections)) >= 2
    /\ \E t \in DOMAIN calls[1].arg.sections :
          /\ Len(calls[1].arg.sections[t]) >= 2
          /\ Occurs(SectionsShown(calls[1].arg.sections), <<t>>)
    /\ \E t \in DOMAIN calls[1].arg.sections :
          /\ Occurs(SectionsShown(calls[1].arg.sections), <<t>>)
          /\ \E i \in 1..Len(calls[1].arg.sections[t]) :
                Occurs(build_fragment(Builder, calls[1].arg.sections[t][i]).text, <<"\n">>)

\* the commands that have returned, in their order
Returns == SelectSeq(calls, LAMBDA c : c.op = "return")

\* the entries written, the first one first
EntriesOf(returns) == [i \in 1..Len(returns) |-> returns[i].ret.entry]

\* every write so far succeeded, and no entry holds the marker
AllWritten(returns) ==
    \A i \in 1..Len(returns) :
        /\ returns[i].ret.result \notin {"Date", "Init", "Write"}
        /\ ~Occurs(returns[i].ret.entry, config.start)

\* the entries with the newest first: a newline ends each of them and a
\* blank line stands between two
RECURSIVE NewestFirst(_)
NewestFirst(entries) ==
    IF entries = <<>> THEN <<>>
    ELSE entries[Len(entries)] \o <<"\n">> \o
         (IF Len(entries) > 1
          THEN <<"\n">> \o NewestFirst(SubSeq(entries, 1, Len(entries) - 1))
          ELSE <<>>)

\* the file after the entries were written to the original text c: with the
\* marker m in c, the text through the first marker, a blank line, the
\* entries and the trimmed rest of c; without it, the entries and c trimmed
AfterWrites(c, m, entries) ==
    (IF Occurs(c, m) THEN ThroughMarker(c, m) \o BlankLine ELSE <<>>) \o
    NewestFirst(entries) \o
    (IF Trimmed(Rest(c, m)) /= <<>> THEN <<"\n">> \o Trimmed(Rest(c, m)) ELSE <<>>)

WrittenTo(returns, original) ==
    /\ file.text = AfterWrites(original, config.start, EntriesOf(returns))
    /\ returns[Len(returns)].ret.after = file
    /\ Occurs(original, config.start) =>
          /\ Take(file.text, Len(ThroughMarker(original, config.start))) =
                ThroughMarker(original, config.start)
          /\ FirstEnd(file.text, config.start) = FirstEnd(original, config.start)
    /\ ~Occurs(original, config.start) =>
          /\ ~Occurs(file.text, config.start)
          /\ StartsWith(file.text, returns[Len(returns)].ret.entry)

\* C28: after the build command has written one entry or more, every write
\* succeeding and no entry holding the marker: when the original file holds
\* the marker, the text through its first occurrence is as in the original,
\* the entries follow it with the newest first, and the trimmed rest of the
\* original follows the oldest entry; when the original holds no marker,
\* the file holds none either and starts with the newest entry, the older
\* ones and the trimmed original after it.
C28_EntriesStackAfterMarker ==
    (calls /= <<>> /\ Returns /= <<>> /\ AllWritten(Returns)) =>
        (IF calls[Len(calls)].op = "return"
         THEN WrittenTo(Returns, Returns[1].ret.before.text)
         ELSE TRUE)

\* two entries that differ were written to a file that holds the marker,
\* text before it and text after it
C28_Witness ==
    /\ calls /= <<>>
    /\ calls[Len(calls)].op = "return"
    /\ Len(Returns) = 2
    /\ AllWritten(Returns)
    /\ Returns[1].ret.entry /= Returns[2].ret.entry
    /\ Returns[1].ret.before = ExampleFile
    /\ Returns[2].ret.before = Returns[1].ret.after

\* the text a comes before the text b in the lexicographic order of their
\* characters
Lexicographic(a, b) ==
    \E k \in 1..(Len(b)) :
        /\ k <= Len(a) + 1
        /\ \A j \in 1..(k - 1) : a[j] = b[j]
        /\ IF k = Len(a) + 1 THEN TRUE ELSE CharCode(a[k]) < CharCode(b[k])

\* the fragment x may stand before the fragment y of the same section
MayPrecede(x, y) ==
    IF x.partial.id = y.partial.id
    THEN x.content = y.content \/ Lexicographic(x.content, y.content)
    ELSE IF x.partial.id.kind = "Integer" /\ y.partial.id.kind = "Integer"
    THEN NumberOf(x.partial.id.int) < NumberOf(y.partial.id.int)
    ELSE IF x.partial.id.kind = "String" /\ y.partial.id.kind = "String"
    THEN Lexicographic(x.partial.id.str, y.partial.id.str)
    ELSE x.partial.id.kind = "Integer"

InOrderOfIds(section) ==
    \A i, j \in 1..Len(section) : i < j => MayPrecede(section[i], section[j])

\* C29: in every section that collect returns, a fragment with an integer id
\* stands before every fragment with a string id, string ids stand in the
\* lexicographic order of their text, integer ids in the order of their
\* numbers, and fragments of one id stand in the lexicographic order of
\* their content.
C29_SectionOrderIsDerivedOrder ==
    \A k \in 1..Len(calls) :
        (calls[k].op = "collect" /\ calls[k].ret.ok) =>
            \A t \in DOMAIN calls[k].ret.sections :
                /\ InOrderOfIds(calls[k].ret.sections[t])
                /\ \A i \in 1..Len(calls[k].ret.sections[t]) :
                      calls[k].ret.sections[t][i].partial.type_name = t

\* collect returned a section with an integer id, two string ids and two
\* fragments of one string id, from a listing that gives them in the
\* opposite order
C29_Witness ==
    /\ Len(calls) = 1
    /\ calls[1].op = "collect"
    /\ calls[1].ret.ok
    /\ calls[1].arg.listing =
          <<File(<<"~", "b", ".", "f", "i", "x">>, <<"x">>),
            File(<<"~", "a", ".", "f", "i", "x">>, <<"y">>),
            File(<<"~", "a", ".", "f", "i", "x", ".", "m", "d">>, <<"w">>),
            File(<<"1", "0", ".", "f", "i", "x">>, <<"d">>)>>
    /\ [i \in 1..4 |-> calls[1].ret.sections[T_fix][i].content] =
          <<<<"d">>, <<"w">>, <<"y">>, <<"x">>>>

====
